---- MODULE Spec2Model ----
(***************************************************************************)
(* Booking lifecycle of the hostel marketplace client.                     *)
(*                                                                         *)
(* Two families of screens exist side by side in the source: screens that  *)
(* talk to the hosted relational store through the supabase client, and    *)
(* earlier screens that keep everything in the browser's localStorage.     *)
(* Spec, SpecVis and SpecGuests are runs of the supabase screens with      *)
(* different browser sessions open; SpecLocal is a run of the localStorage *)
(* screens.                                                                *)
(***************************************************************************)
EXTENDS Integers, FiniteSets, Sequences, TLC

\* Number of booking rows the store ever hands an id to.
MaxBookings == 2

\* ------------------------------------------------------------------------
\* Identities (profiles table: id, role)
\* ------------------------------------------------------------------------
Students == {"A", "S2"}
Owners == {"B", "C"}
Admins == {"admin"}
Users == Students \cup Owners \cup Admins

\* useAuth() of a visitor: user = null, isAuthenticated = false
NoUser == "none"
\* a browser session that is not open in this run
Off == "off"

Role(u) ==
  IF u \in Students THEN "student"
  ELSE IF u \in Owners THEN "owner"
  ELSE IF u \in Admins THEN "admin"
  ELSE "none"

isAuthenticated(u) == u \in Users

Sessions == {"s1", "s2", "s3"}
HostelIds == {"L1", "L2"}
BookingIds == 1..(MaxBookings + 1)
Statuses == {"pending", "approved", "rejected"}

VARIABLES
  hostels,        \* hostels table: rows [id, owner_id, name, location, price, rooms]
  amenities,      \* amenities table: rows [hostel_id, flags]
  hostel_images,  \* hostel_images table: rows [hostel_id, image_url]
  authUser,       \* per session: what useAuth().user currently is
  signedIn,       \* the sessions that hold a stored sign-in
  provider,       \* per session: isLoading of AuthProvider and its requests
  profiles,       \* profiles table: the ids of the rows
  bookings,       \* bookings table: rows [id, hostel_id, student_id, status]
  nextId,         \* next unused booking id (ids are never reused)
  sessUser,       \* the identity each browser session is signed in as
  ui,             \* per session: the mounted screen and its component state
  adminBookingsIssued, \* identities on whose behalf the adminBookings query ran
  lsUsers,        \* localStorage "hostel_users": the ids stored
  lsHostels,      \* localStorage "hostel_listings": rows keyed by id
  lsBookings,     \* localStorage "hostel_bookings": rows keyed by id
  lastOp          \* the last handler that ran, and what it reported

lsStore == <<lsUsers, lsHostels, lsBookings>>
dbStore == <<hostels, bookings, nextId, adminBookingsIssued, amenities,
            hostel_images>>
listingStore == <<amenities, hostel_images>>
authStore == <<authUser, signedIn, provider, profiles>>
vars == <<hostels, bookings, nextId, sessUser, ui, adminBookingsIssued,
          lsUsers, lsHostels, lsBookings, amenities, hostel_images,
          authUser, signedIn, provider, profiles, lastOp>>

\* ------------------------------------------------------------------------
\* The store primitives the screens use
\* ------------------------------------------------------------------------
\* bookings.hostel_id -> hostels.id, removed together with the hostel
CascadeBookings(hs) == {b \in bookings : \E h \in hs : h.id = b.hostel_id}

\* amenities.hostel_id and hostel_images.hostel_id -> hostels.id, likewise
CascadeRows(rows, hs) == {r \in rows : \E h \in hs : h.id = r.hostel_id}

\* supabase.from('bookings').insert(row): the foreign keys must resolve
InsertAccepted(row) ==
  /\ \E h \in hostels : h.id = row.hostel_id
  /\ row.student_id \in Users

StatusOf(bs, id) ==
  IF \E b \in bs : b.id = id
  THEN (CHOOSE b \in bs : b.id = id).status
  ELSE "absent"

\* ------------------------------------------------------------------------
\* Queries (bs: the bookings table, hs: the hostels table, as read)
\* ------------------------------------------------------------------------
studentBookingsUnfiltered(bs, u) == bs

studentBookings(bs, u) == {b \in bs : b.student_id = u}

ownerHostels(hs, u) == {h \in hs : h.owner_id = u}

ownerBookings(hs, bs, u) ==
  LET hostelIds == {h.id : h \in ownerHostels(hs, u)}
  IN  IF hostelIds = {} THEN {} ELSE {b \in bs : b.hostel_id \in hostelIds}

adminBookings(bs) == bs

adminHostels(hs) == hs

\* ------------------------------------------------------------------------
\* Role gates of the dashboards: the route a visit ends on
\* ------------------------------------------------------------------------
StudentGate(u) ==
  IF ~isAuthenticated(u) THEN "auth"
  ELSE IF Role(u) # "student"
       THEN (IF Role(u) = "owner" THEN "owner" ELSE "admin")
       ELSE "student"

OwnerGate(u) ==
  IF ~isAuthenticated(u) THEN "auth"
  ELSE IF Role(u) # "owner" /\ Role(u) # "admin"
       THEN (IF Role(u) = "student" THEN "student" ELSE "admin")
       ELSE "owner"

AdminGate(u) ==
  IF ~isAuthenticated(u) THEN "auth"
  ELSE IF Role(u) # "admin"
       THEN (IF Role(u) = "student" THEN "student" ELSE "owner")
       ELSE "admin"

\* AuthProvider at rest: isLoading false, no profile fetch and no
\* getSession awaiting an answer; lastCall is the last of login, signup
\* and logout that succeeded
Idle == [isLoading |-> FALSE, fetches |-> <<>>, getSession |-> FALSE,
         lastCall |-> "none"]

BlankPage(p) ==
  [page |-> p, hostel |-> "null", hasRequestedBefore |-> FALSE,
   requestDialogOpen |-> FALSE, bookings |-> {}, myHostels |-> {},
   users |-> {}, fetching |-> "null", effectsPending |-> FALSE,
   formImages |-> <<>>, uploadImages |-> <<>>, imageEdits |-> <<>>]

\* The screen a session shows once route p is mounted and its queries returned
Mounted(hs, bs, u, p) ==
  IF p = "student"
  THEN [BlankPage(p) EXCEPT !.bookings = studentBookings(bs, u)]
  ELSE IF p = "owner"
  THEN [BlankPage(p) EXCEPT !.bookings = ownerBookings(hs, bs, u),
                            !.myHostels = {h.id : h \in ownerHostels(hs, u)}]
  ELSE IF p = "admin"
  THEN [BlankPage(p) EXCEPT !.bookings = adminBookings(bs),
                            !.myHostels = {h.id : h \in adminHostels(hs)}]
  ELSE BlankPage(p)

\* lastOp.sent when the handler was given no form: the form as it is
\* before anything is typed
NoSent ==
  [name |-> <<>>, location |-> <<>>, price |-> "", rooms |-> "",
   amenities |-> [a \in {"wifi", "water", "electricity", "security",
                         "furniture", "kitchen", "bathroom"} |-> FALSE],
   images |-> <<>>]

NoOp == [op |-> "none", sess |-> "none", id |-> 0, target |-> "none",
         pre |-> "none", post |-> "none", res |-> "none", sent |-> NoSent]

Loaded(s) == [NoOp EXCEPT !.op = "load", !.sess = s]

Open(s) == sessUser[s] # Off

ShownPending(s, id) ==
  \E r \in ui[s].bookings : r.id = id /\ r.status = "pending"

\* ------------------------------------------------------------------------
\* Visiting a dashboard route: role gate, then the screen's queries
\* ------------------------------------------------------------------------
OpenStudentDashboard(s) ==
  LET u == authUser[s] IN
  /\ Open(s)
  /\ ui' = [ui EXCEPT ![s] = Mounted(hostels, bookings, u, StudentGate(u))]
  /\ adminBookingsIssued' =
       IF StudentGate(u) = "admin" THEN adminBookingsIssued \cup {u}
       ELSE adminBookingsIssued
  /\ lastOp' = Loaded(s)
  /\ UNCHANGED <<hostels, bookings, nextId, sessUser, lsStore, listingStore, authStore>>

OpenOwnerDashboard(s) ==
  LET u == authUser[s] IN
  /\ Open(s)
  /\ ui' = [ui EXCEPT ![s] = Mounted(hostels, bookings, u, OwnerGate(u))]
  /\ adminBookingsIssued' =
       IF OwnerGate(u) = "admin" THEN adminBookingsIssued \cup {u}
       ELSE adminBookingsIssued
  /\ lastOp' = Loaded(s)
  /\ UNCHANGED <<hostels, bookings, nextId, sessUser, lsStore, listingStore, authStore>>

\* AdminDashboard whose queries carry enabled: user.role === 'admin'
OpenAdminDashboard(s) ==
  LET u == authUser[s] IN
  /\ Open(s)
  /\ ui' = [ui EXCEPT ![s] = Mounted(hostels, bookings, u, AdminGate(u))]
  /\ adminBookingsIssued' =
       IF isAuthenticated(u) /\ Role(u) = "admin"
       THEN adminBookingsIssued \cup {u}
       ELSE adminBookingsIssued
  /\ lastOp' = Loaded(s)
  /\ UNCHANGED <<hostels, bookings, nextId, sessUser, lsStore, listingStore, authStore>>

\* AdminDashboard whose queries have no enabled option: they run on mount
OpenAdminDashboardQueries(s) ==
  LET u == authUser[s] IN
  /\ Open(s)
  /\ ui' = [ui EXCEPT ![s] = Mounted(hostels, bookings, u, AdminGate(u))]
  /\ adminBookingsIssued' = adminBookingsIssued \cup {u}
  /\ lastOp' = Loaded(s)
  /\ UNCHANGED <<hostels, bookings, nextId, sessUser, lsStore, listingStore, authStore>>

\* ------------------------------------------------------------------------
\* HostelDetail
\* ------------------------------------------------------------------------
fetchHostelData(s, id) ==
  LET u == sessUser[s]
      found == \E h \in hostels : h.id = id
      bookingData == {b \in bookings : b.hostel_id = id /\ b.student_id = u}
  IN
  /\ Open(s)
  /\ ui' = [ui EXCEPT ![s] =
       IF found
       THEN [BlankPage("detail") EXCEPT
               !.hostel = id,
               !.hasRequestedBefore = (isAuthenticated(u) /\ bookingData # {})]
       ELSE BlankPage("detail")]
  /\ lastOp' = [Loaded(s) EXCEPT !.target = id,
                                 !.res = IF found THEN "ok" ELSE "error"]
  /\ UNCHANGED <<hostels, bookings, nextId, sessUser, adminBookingsIssued, lsStore, listingStore, authStore>>

handleRequestToBookAnyRole(s) ==
  LET u == sessUser[s] IN
  /\ Open(s)
  /\ ui[s].page = "detail" /\ ui[s].hostel # "null"
  /\ ~ui[s].hasRequestedBefore /\ ~ui[s].requestDialogOpen
  /\ IF ~isAuthenticated(u)
     THEN /\ ui' = [ui EXCEPT ![s] = BlankPage("auth")]
          /\ lastOp' = [NoOp EXCEPT !.op = "CreateBooking", !.sess = s,
                          !.target = ui[s].hostel, !.res = "signin"]
     ELSE /\ ui' = [ui EXCEPT ![s].requestDialogOpen = TRUE]
          /\ lastOp' = NoOp
  /\ UNCHANGED <<hostels, bookings, nextId, sessUser, adminBookingsIssued, lsStore, listingStore, authStore>>

handleRequestToBook(s) ==
  LET u == sessUser[s] IN
  /\ Open(s)
  /\ ui[s].page = "detail" /\ ui[s].hostel # "null"
  /\ ~ui[s].hasRequestedBefore /\ ~ui[s].requestDialogOpen
  /\ IF ~isAuthenticated(u)
     THEN /\ ui' = [ui EXCEPT ![s] = BlankPage("auth")]
          /\ lastOp' = [NoOp EXCEPT !.op = "CreateBooking", !.sess = s,
                          !.target = ui[s].hostel, !.res = "signin"]
     ELSE IF Role(u) # "student"
     THEN /\ ui' = ui
          /\ lastOp' = [NoOp EXCEPT !.op = "CreateBooking", !.sess = s,
                          !.target = ui[s].hostel, !.res = "error"]
     ELSE /\ ui' = [ui EXCEPT ![s].requestDialogOpen = TRUE]
          /\ lastOp' = NoOp
  /\ UNCHANGED <<hostels, bookings, nextId, sessUser, adminBookingsIssued, lsStore, listingStore, authStore>>

submitBookingRequest(s) ==
  LET u == sessUser[s]
      row == [id |-> nextId, hostel_id |-> ui[s].hostel, student_id |-> u,
              status |-> "pending"]
  IN
  /\ Open(s)
  /\ ui[s].page = "detail" /\ ui[s].requestDialogOpen
  /\ ui[s].hostel # "null" /\ u # NoUser
  /\ nextId <= MaxBookings
  /\ IF InsertAccepted(row)
     THEN /\ bookings' = bookings \cup {row}
          /\ nextId' = nextId + 1
          /\ ui' = [ui EXCEPT ![s].hasRequestedBefore = TRUE,
                              ![s].requestDialogOpen = FALSE]
          /\ lastOp' = [op |-> "CreateBooking", sess |-> s, id |-> row.id,
                        target |-> row.hostel_id, pre |-> "absent",
                        post |-> "pending", res |-> "ok", sent |-> NoSent]
     ELSE /\ UNCHANGED <<bookings, nextId, ui>>
          /\ lastOp' = [op |-> "CreateBooking", sess |-> s, id |-> 0,
                        target |-> row.hostel_id, pre |-> "absent",
                        post |-> "absent", res |-> "error", sent |-> NoSent]
  /\ UNCHANGED <<hostels, sessUser, adminBookingsIssued, lsStore, listingStore, authStore>>

PostgrestErrorWhenNoRow(matched) ==
  IF matched = {} THEN "PGRST116" ELSE "null"

\* the error of an update or delete with .eq() filters and no .single():
\* the rows the filters match, none included, are not an error
PostgrestError(matched) == "null"

\* if (error) throw error, and the toast of onSuccess or onError
Outcome(error) == IF error = "null" THEN "ok" ELSE "error"

\* ------------------------------------------------------------------------
\* StudentDashboard
\* ------------------------------------------------------------------------
cancelBookingMutation(s, id) ==
  LET u == sessUser[s]
      after == {b \in bookings :
                  ~(b.id = id /\ b.student_id = u /\ b.status = "pending")}
  IN
  /\ Open(s)
  /\ ui[s].page = "student" /\ ShownPending(s, id)
  /\ bookings' = after
  /\ ui' = [ui EXCEPT ![s].bookings = studentBookings(after, u)]
  /\ lastOp' = [op |-> "CancelBooking", sess |-> s, id |-> id,
                target |-> "none", pre |-> StatusOf(bookings, id),
                post |-> StatusOf(after, id),
                res |-> Outcome(PostgrestError(bookings \ after)),
                sent |-> NoSent]
  /\ UNCHANGED <<hostels, nextId, sessUser, adminBookingsIssued, lsStore, listingStore, authStore>>

\* ------------------------------------------------------------------------
\* OwnerDashboard
\* ------------------------------------------------------------------------
SetStatus(bs, id, newStatus) ==
  {IF b.id = id THEN [b EXCEPT !.status = newStatus] ELSE b : b \in bs}

updateBookingStatusMutation(s, id, newStatus) ==
  LET u == sessUser[s]
      after == SetStatus(bookings, id, newStatus)
  IN
  /\ Open(s)
  /\ ui[s].page = "owner" /\ ShownPending(s, id)
  /\ bookings' = after
  /\ ui' = [ui EXCEPT ![s].bookings = ownerBookings(hostels, after, u)]
  /\ lastOp' = [op |-> "SetBookingStatus", sess |-> s, id |-> id,
                target |-> "none", pre |-> StatusOf(bookings, id),
                post |-> StatusOf(after, id),
                res |-> Outcome(PostgrestError(
                          {b \in bookings : b.id = id})),
                sent |-> NoSent]
  /\ UNCHANGED <<hostels, nextId, sessUser, adminBookingsIssued, lsStore, listingStore, authStore>>

deleteHostelMutation(s, hostelId) ==
  LET u == sessUser[s]
      gone == {h \in hostels : h.id = hostelId /\ h.owner_id = u}
      hs == hostels \ gone
      bs == bookings \ CascadeBookings(gone)
  IN
  /\ Open(s)
  /\ ui[s].page = "owner" /\ hostelId \in ui[s].myHostels
  /\ hostels' = hs
  /\ bookings' = bs
  /\ amenities' = amenities \ CascadeRows(amenities, gone)
  /\ hostel_images' = hostel_images \ CascadeRows(hostel_images, gone)
  /\ ui' = [ui EXCEPT ![s].bookings = ownerBookings(hs, bs, u),
                      ![s].myHostels = {h.id : h \in ownerHostels(hs, u)}]
  /\ lastOp' = [op |-> "DeleteListing", sess |-> s, id |-> 0,
                target |-> hostelId, pre |-> "none", post |-> "none",
                res |-> "ok", sent |-> NoSent]
  /\ UNCHANGED <<nextId, sessUser, adminBookingsIssued, lsStore, authStore>>

\* ------------------------------------------------------------------------
\* AdminDashboard
\* ------------------------------------------------------------------------
handleBookingStatusUpdate(s, id, status) ==
  LET after == SetStatus(bookings, id, status) IN
  /\ Open(s)
  /\ ui[s].page = "admin" /\ ShownPending(s, id)
  /\ bookings' = after
  /\ lastOp' = [op |-> "SetBookingStatus", sess |-> s, id |-> id,
                target |-> "none", pre |-> StatusOf(bookings, id),
                post |-> StatusOf(after, id),
                res |-> Outcome(PostgrestError(
                          {b \in bookings : b.id = id})),
                sent |-> NoSent]
  /\ UNCHANGED <<hostels, nextId, sessUser, ui, adminBookingsIssued, lsStore, listingStore, authStore>>

deleteHostel(s, hostelId) ==
  LET gone == {h \in hostels : h.id = hostelId}
      hs == hostels \ gone
      bs == bookings \ CascadeBookings(gone)
  IN
  /\ Open(s)
  /\ ui[s].page = "admin" /\ hostelId \in ui[s].myHostels
  /\ hostels' = hs
  /\ bookings' = bs
  /\ amenities' = amenities \ CascadeRows(amenities, gone)
  /\ hostel_images' = hostel_images \ CascadeRows(hostel_images, gone)
  /\ ui' = [ui EXCEPT ![s].myHostels = {h.id : h \in adminHostels(hs)}]
  /\ lastOp' = [op |-> "DeleteListing", sess |-> s, id |-> 0,
                target |-> hostelId, pre |-> "none", post |-> "none",
                res |-> "ok", sent |-> NoSent]
  /\ UNCHANGED <<nextId, sessUser, adminBookingsIssued, lsStore, authStore>>

\* the adminUsers query of AdminDashboard has answered: every profile
adminUsers(s) ==
  /\ Open(s)
  /\ ui[s].page = "admin"
  /\ ui' = [ui EXCEPT ![s].users = profiles]
  /\ lastOp' = Loaded(s)
  /\ UNCHANGED <<dbStore, sessUser, lsStore, authStore>>

\* AdminDashboard.deleteUser, from the Delete button in the row of a
\* listed user: the profile is deleted by id and the users are refetched
deleteUser(s, userId) ==
  LET after == profiles \ {userId}
      error == PostgrestError(profiles \cap {userId})
  IN
  /\ Open(s)
  /\ ui[s].page = "admin" /\ userId \in ui[s].users
  /\ profiles' = after
  /\ ui' = [ui EXCEPT ![s].users =
       IF error = "null" THEN after ELSE @]
  /\ lastOp' = [NoOp EXCEPT !.op = "DeleteUser", !.sess = s,
                            !.target = userId, !.res = Outcome(error)]
  /\ UNCHANGED <<dbStore, sessUser, lsStore, authUser, signedIn, provider>>

\* AdminDashboard.handleDelete for a user, confirmed in the dialog: the
\* admin's own id is refused, any other profile is deleted by id
handleDeleteUser(s, id) ==
  LET u == authUser[s]
      error == PostgrestError(profiles \cap {id})
  IN
  /\ Open(s)
  /\ ui[s].page = "admin" /\ id \in ui[s].users
  /\ IF id = u
     THEN /\ UNCHANGED <<profiles, ui>>
          /\ lastOp' = [NoOp EXCEPT !.op = "DeleteUser", !.sess = s,
                                    !.target = id, !.res = "error"]
     ELSE /\ profiles' = profiles \ {id}
          /\ UNCHANGED ui
          /\ lastOp' = [NoOp EXCEPT !.op = "DeleteUser", !.sess = s,
                                    !.target = id, !.res = Outcome(error)]
  /\ UNCHANGED <<dbStore, sessUser, lsStore, authUser, signedIn, provider>>

\* ------------------------------------------------------------------------
\* Runs of the supabase screens
\* ------------------------------------------------------------------------
SeedHostels ==
  {[id |-> "L1", owner_id |-> "B", name |-> <<"H", "Q">>,
    location |-> <<"T", "n">>, price |-> 300, rooms |-> 4],
   [id |-> "L2", owner_id |-> "C", name |-> <<"H", "Q">>,
    location |-> <<"T", "n">>, price |-> 300, rooms |-> 4]}

\* a session whose stored sign-in has been read back: useAuth().user is the
\* account
Restored(open) ==
  [s \in Sessions |-> IF open[s] \in Users THEN open[s] ELSE NoUser]

InitDb(open) ==
  /\ hostels = SeedHostels
  /\ bookings = {}
  /\ nextId = 1
  /\ sessUser = open
  /\ ui = [s \in Sessions |-> BlankPage("home")]
  /\ adminBookingsIssued = {}
  /\ amenities = {} /\ hostel_images = {}
  /\ authUser = Restored(open)
  /\ profiles = Users
  /\ provider = [s \in Sessions |-> Idle]
  /\ signedIn = {s \in Sessions : open[s] \in Users}
  /\ lsUsers = {} /\ lsHostels = {} /\ lsBookings = {}
  /\ lastOp = NoOp

\* a student, the owner of L1 and an admin, one session each
Init == InitDb([s1 |-> "A", s2 |-> "B", s3 |-> "admin"])

Next ==
  \/ \E s \in Sessions : OpenStudentDashboard(s)
  \/ \E s \in Sessions : OpenOwnerDashboard(s)
  \/ \E s \in Sessions : OpenAdminDashboard(s)
  \/ \E s \in Sessions, id \in HostelIds : fetchHostelData(s, id)
  \/ \E s \in Sessions : handleRequestToBook(s)
  \/ \E s \in Sessions : submitBookingRequest(s)
  \/ \E s \in Sessions, id \in BookingIds : cancelBookingMutation(s, id)
  \/ \E s \in Sessions, id \in BookingIds, st \in {"approved", "rejected"} :
       updateBookingStatusMutation(s, id, st)
  \/ \E s \in Sessions, id \in HostelIds : deleteHostelMutation(s, id)
  \/ \E s \in Sessions, id \in BookingIds, st \in {"approved", "rejected"} :
       handleBookingStatusUpdate(s, id, st)
  \/ \E s \in Sessions, id \in HostelIds : deleteHostel(s, id)

Spec == Init /\ [][Next]_vars

\* two students with the owner of L1, or a student with an admin
InitVis ==
  \/ InitDb([s1 |-> "A", s2 |-> "S2", s3 |-> "B"])
  \/ InitDb([s1 |-> "A", s2 |-> Off, s3 |-> "admin"])

SpecVis == InitVis /\ [][Next]_vars

\* any two sessions of a student, an owner, an admin or a visitor; the
\* two may belong to the same identity
Guests == {"A", "B", "admin", NoUser}

InitGuests ==
  \E u1 \in Guests, u2 \in Guests :
    InitDb([s1 |-> u1, s2 |-> u2, s3 |-> Off])

NextGuests ==
  \/ Next
  \/ \E s \in Sessions : OpenAdminDashboardQueries(s)

SpecGuests == InitGuests /\ [][NextGuests]_vars

\* the admin screen in two browsers: the admin or the owner B in one, the
\* admin or nobody in the other
AdminVisitors == {"admin", "B"}

InitAdmin ==
  \E u1 \in AdminVisitors, u2 \in {"admin", Off} :
    InitDb([s1 |-> u1, s2 |-> u2, s3 |-> Off])

NextAdmin ==
  \/ \E s \in Sessions : OpenAdminDashboardQueries(s)
  \/ \E s \in Sessions : adminUsers(s)
  \/ \E s \in Sessions, userId \in Users : deleteUser(s, userId)
  \/ \E s \in Sessions, id \in Users : handleDeleteUser(s, id)
  \/ \E s \in Sessions, hostelId \in HostelIds : deleteHostel(s, hostelId)

SpecAdmin == InitAdmin /\ [][NextAdmin]_vars

\* ------------------------------------------------------------------------
\* The localStorage screens.  hostel_users, hostel_listings and
\* hostel_bookings are JSON objects keyed by id; a row's id field is its key.
\* ------------------------------------------------------------------------
\* What reading a field of a missing object yields
Undefined == "undefined"

StatusOfLocal(bs, bookingId) ==
  IF \E b \in bs : b.id = bookingId
  THEN (CHOOSE b \in bs : b.id = bookingId).status
  ELSE "absent"

HostelIdOfLocal(bs, bookingId) ==
  IF \E b \in bs : b.id = bookingId
  THEN (CHOOSE b \in bs : b.id = bookingId).hostelId
  ELSE Undefined

\* Strings whose length matters are sequences of characters
RECURSIVE trimStart(_)
trimStart(str) ==
  IF str # <<>> /\ Head(str) = " " THEN trimStart(Tail(str)) ELSE str

RECURSIVE trimEnd(_)
trimEnd(str) ==
  IF str # <<>> /\ str[Len(str)] = " "
  THEN trimEnd(SubSeq(str, 1, Len(str) - 1))
  ELSE str

trim(str) == trimEnd(trimStart(str))

\* Least number of characters a name must keep after trimming
MinNameLength == 2

validateName(name) == Len(trim(name)) >= MinNameLength

\* parseFloat and parseInt(_, 10) on the texts the form is given
NaN == [nan |-> TRUE, value |-> 0]

parseFloat(str) ==
  CASE str = "300" -> [nan |-> FALSE, value |-> 300]
    [] str = "0" -> [nan |-> FALSE, value |-> 0]
    [] OTHER -> NaN

parseInt(str) ==
  CASE str = "4" -> [nan |-> FALSE, value |-> 4]
    [] str = "0" -> [nan |-> FALSE, value |-> 0]
    [] OTHER -> NaN

validatePriceNonNegative(price) ==
  LET priceNumber == parseFloat(price)
  IN  ~priceNumber.nan /\ priceNumber.value >= 0

validatePrice(price) ==
  LET priceNumber == parseFloat(price)
  IN  ~priceNumber.nan /\ priceNumber.value > 0

validateRooms(rooms) ==
  LET roomsNumber == parseInt(rooms)
  IN  ~roomsNumber.nan /\ roomsNumber.value > 0

\* the fields getFormErrors reports an error for; location is not among
\* the fields it looks at
getFormErrors(formData) ==
  (IF ~validateName(formData.name) THEN {"name"} ELSE {})
    \cup (IF ~validatePrice(formData.price) THEN {"price"} ELSE {})
    \cup (IF ~validateRooms(formData.rooms) THEN {"rooms"} ELSE {})

validateForm(formData) == getFormErrors(formData) = {}

\* What is typed into the hostel form
FormNames == {<<"H", "Q">>, <<" ", "H", " ">>, <<>>}
FormLocations == {<<"T", "n">>, <<>>}
FormPrices == {"300", "0", "abc"}
FormRooms == {"4", "0"}

\* The seven amenity flags of a hostel
AmenityNames ==
  {"wifi", "water", "electricity", "security", "furniture", "kitchen",
   "bathroom"}

Flags(on) == [a \in AmenityNames |-> a \in on]

\* formData.amenities before any box is ticked
NoAmenities == Flags({})

FormAmenities == {NoAmenities, Flags({"wifi", "kitchen"})}
FormImages == {<<>>, <<"img1">>}

Forms ==
  [name : FormNames, location : FormLocations, price : FormPrices,
   rooms : FormRooms, amenities : FormAmenities, images : FormImages]

\* a form that passes every check
ValidForm ==
  [name |-> <<"H", "Q">>, location |-> <<"T", "n">>, price |-> "300",
   rooms |-> "4", amenities |-> NoAmenities, images |-> <<>>]

\* the fields in which a form differs from ValidForm
Deviations(formData) ==
  {f \in DOMAIN ValidForm : formData[f] # ValidForm[f]}

\* The forms submitted in a run: ValidForm, the forms that differ from it
\* in one field, price and rooms both wrong, amenities and images both set
SubmittedForms ==
  {formData \in Forms :
     \/ Cardinality(Deviations(formData)) <= 1
     \/ Deviations(formData) = {"price", "rooms"}
     \/ Deviations(formData) = {"amenities", "images"}}

\* of these, the ones with no amenity ticked and no image attached
PlainForms ==
  {formData \in SubmittedForms :
     formData.amenities = NoAmenities /\ formData.images = <<>>}

\* ids handed to hostels created during a run
NewHostelIds == {"N1"}

\* The screen a session shows once route p of the localStorage screens is
\* mounted and its load effect has run
MountedLocal(us, hs, bs, u, p) ==
  IF p = "student"
  THEN [BlankPage(p) EXCEPT !.bookings = {b \in bs : b.studentId = u}]
  ELSE IF p = "owner"
  THEN [BlankPage(p) EXCEPT
          !.myHostels = {h.id : h \in {x \in hs : x.ownerId = u}},
          !.bookings = {b \in bs : b.ownerId = u}]
  ELSE IF p = "admin" /\ Role(u) = "admin"
  THEN [BlankPage(p) EXCEPT !.users = us,
                            !.myHostels = {h.id : h \in hs}]
  ELSE BlankPage(p)

OpenStudentDashboardLocal(s) ==
  LET u == authUser[s] IN
  /\ Open(s)
  /\ ui' = [ui EXCEPT ![s] =
       MountedLocal(lsUsers, lsHostels, lsBookings, u, StudentGate(u))]
  /\ lastOp' = Loaded(s)
  /\ UNCHANGED <<dbStore, sessUser, lsStore, authStore>>

OpenOwnerDashboardLocal(s) ==
  LET u == authUser[s] IN
  /\ Open(s)
  /\ ui' = [ui EXCEPT ![s] =
       MountedLocal(lsUsers, lsHostels, lsBookings, u, OwnerGate(u))]
  /\ lastOp' = Loaded(s)
  /\ UNCHANGED <<dbStore, sessUser, lsStore, authStore>>

OpenAdminDashboardLocal(s) ==
  LET u == authUser[s] IN
  /\ Open(s)
  /\ ui' = [ui EXCEPT ![s] =
       MountedLocal(lsUsers, lsHostels, lsBookings, u, AdminGate(u))]
  /\ lastOp' = Loaded(s)
  /\ UNCHANGED <<dbStore, sessUser, lsStore, authStore>>

\* StudentDashboard.cancelBooking, from the Cancel button of a row the
\* screen shows as pending
cancelBooking(s, bookingId) ==
  LET after == {b \in lsBookings : b.id # bookingId} IN
  /\ Open(s) /\ sessUser[s] # NoUser
  /\ ui[s].page = "student" /\ ShownPending(s, bookingId)
  /\ lsBookings' = after
  /\ ui' = [ui EXCEPT ![s].bookings = {b \in @ : b.id # bookingId}]
  /\ lastOp' = [op |-> "CancelBooking", sess |-> s, id |-> bookingId,
                target |-> HostelIdOfLocal(lsBookings, bookingId),
                pre |-> StatusOfLocal(lsBookings, bookingId),
                post |-> StatusOfLocal(after, bookingId), res |-> "ok", sent |-> NoSent]
  /\ UNCHANGED <<dbStore, sessUser, lsUsers, lsHostels, authStore>>

\* allBookings[bookingId] = {...allBookings[bookingId], status: newStatus}
SetStatusLocal(bs, bookingId, newStatus) ==
  IF \E b \in bs : b.id = bookingId
  THEN {IF b.id = bookingId THEN [b EXCEPT !.status = newStatus] ELSE b :
          b \in bs}
  ELSE bs \cup {[id |-> bookingId, hostelId |-> Undefined,
                 studentId |-> Undefined, ownerId |-> Undefined,
                 status |-> newStatus]}

\* OwnerDashboard.updateBookingStatus, from the Approve and Reject buttons
\* of a row the screen shows as pending
updateBookingStatus(s, bookingId, newStatus) ==
  LET after == SetStatusLocal(lsBookings, bookingId, newStatus) IN
  /\ Open(s)
  /\ ui[s].page = "owner" /\ ShownPending(s, bookingId)
  /\ lsBookings' = after
  /\ ui' = [ui EXCEPT ![s].bookings =
       {IF b.id = bookingId THEN [b EXCEPT !.status = newStatus] ELSE b :
          b \in @}]
  /\ lastOp' = [op |-> "SetBookingStatus", sess |-> s, id |-> bookingId,
                target |-> HostelIdOfLocal(lsBookings, bookingId),
                pre |-> StatusOfLocal(lsBookings, bookingId),
                post |-> StatusOfLocal(after, bookingId), res |-> "ok", sent |-> NoSent]
  /\ UNCHANGED <<dbStore, sessUser, lsUsers, lsHostels, authStore>>

\* OwnerDashboard.deleteHostel, confirmed in the dialog of a listed hostel
deleteHostelLocal(s, hostelToDelete) ==
  /\ Open(s)
  /\ ui[s].page = "owner" /\ hostelToDelete \in ui[s].myHostels
  /\ lsHostels' = {h \in lsHostels : h.id # hostelToDelete}
  /\ lsBookings' = {b \in lsBookings : b.hostelId # hostelToDelete}
  /\ ui' = [ui EXCEPT
       ![s].myHostels = @ \ {hostelToDelete},
       ![s].bookings = {b \in @ : b.hostelId # hostelToDelete}]
  /\ lastOp' = [op |-> "DeleteListing", sess |-> s, id |-> 0,
                target |-> hostelToDelete, pre |-> "none", post |-> "none",
                res |-> "ok", sent |-> NoSent]
  /\ UNCHANGED <<dbStore, sessUser, lsUsers, authStore>>

\* AdminDashboard.handleDelete, confirmed in the dialog of a listed user or
\* hostel
handleDelete(s, type, id) ==
  LET u == sessUser[s] IN
  /\ Open(s)
  /\ ui[s].page = "admin"
  /\ IF type = "user"
     THEN /\ id \in ui[s].users
          /\ IF id = u
             THEN /\ UNCHANGED <<lsUsers, ui>>
                  /\ lastOp' = [op |-> "DeleteUser", sess |-> s, id |-> 0,
                                target |-> id, pre |-> "none",
                                post |-> "none", res |-> "error", sent |-> NoSent]
             ELSE /\ lsUsers' = lsUsers \ {id}
                  /\ ui' = [ui EXCEPT ![s].users = @ \ {id}]
                  /\ lastOp' = [op |-> "DeleteUser", sess |-> s, id |-> 0,
                                target |-> id, pre |-> "none",
                                post |-> "none", res |-> "ok", sent |-> NoSent]
          /\ UNCHANGED lsHostels
     ELSE /\ id \in ui[s].myHostels
          /\ lsHostels' = {h \in lsHostels : h.id # id}
          /\ ui' = [ui EXCEPT ![s].myHostels = @ \ {id}]
          /\ lastOp' = [op |-> "DeleteListing", sess |-> s, id |-> 0,
                        target |-> id, pre |-> "none", post |-> "none",
                        res |-> "ok", sent |-> NoSent]
          /\ UNCHANGED lsUsers
  /\ UNCHANGED <<dbStore, sessUser, lsBookings, authStore>>

\* HostelCreate on the route /hostel-edit/:id: the role effect, then the
\* effect that loads the hostel; of two redirects the later one stands
OpenHostelEdit(s, id) ==
  LET u == authUser[s]
      found == \E h \in lsHostels : h.id = id
      hostel == CHOOSE h \in lsHostels : h.id = id
      allowed == found /\ (u = hostel.ownerId \/ Role(u) = "admin")
      turnedAway == isAuthenticated(u) /\ Role(u) # "owner"
                      /\ Role(u) # "admin"
  IN
  /\ Open(s)
  /\ ui' = [ui EXCEPT ![s] =
       IF ~allowed
       THEN MountedLocal(lsUsers, lsHostels, lsBookings, u, OwnerGate(u))
       ELSE IF turnedAway THEN BlankPage("home")
       ELSE [BlankPage("edit") EXCEPT !.hostel = id]]
  /\ lastOp' = [Loaded(s) EXCEPT !.target = id,
                                 !.res = IF allowed THEN "ok" ELSE "error"]
  /\ UNCHANGED <<dbStore, sessUser, lsStore, authStore>>

\* HostelCreate on the route /hostel-create: the role effect only
OpenHostelCreateLocal(s) ==
  LET u == authUser[s]
      turnedAway == isAuthenticated(u) /\ Role(u) # "owner"
                      /\ Role(u) # "admin"
  IN
  /\ Open(s)
  /\ ui' = [ui EXCEPT ![s] =
       IF turnedAway THEN BlankPage("home") ELSE BlankPage("create")]
  /\ lastOp' = [Loaded(s) EXCEPT !.res = IF turnedAway THEN "error" ELSE "ok"]
  /\ UNCHANGED <<dbStore, sessUser, lsStore, authStore>>

\* `hostel_${Date.now()}`: an id no stored hostel has
FreshHostelIdLocal ==
  CHOOSE id \in NewHostelIds : ~\E h \in lsHostels : h.id = id

\* HostelCreate.handleSubmit, creating (page create) or editing (page edit,
\* hostelId = id)
handleSubmit(s, formData) ==
  LET u == authUser[s]
      isEditing == ui[s].page = "edit"
      hostelId == IF isEditing THEN ui[s].hostel ELSE FreshHostelIdLocal
      opName == IF isEditing THEN "UpdateListing" ELSE "CreateListing"
      found == \E h \in lsHostels : h.id = hostelId
      hostel == [id |-> hostelId, name |-> formData.name,
                 location |-> formData.location,
                 price |-> parseFloat(formData.price).value,
                 rooms |-> parseInt(formData.rooms).value,
                 amenities |-> formData.amenities,
                 images |-> formData.images,
                 ownerId |-> u]
      saved == {h \in lsHostels : h.id # hostelId} \cup {hostel}
  IN
  /\ Open(s)
  /\ \/ isEditing /\ ui[s].hostel # "null"
     \/ /\ ui[s].page = "create"
        /\ \E id \in NewHostelIds : ~\E h \in lsHostels : h.id = id
  /\ IF ~validateForm(formData)
     THEN /\ UNCHANGED <<lsHostels, ui>>
          /\ lastOp' = [op |-> opName, sess |-> s, id |-> 0,
                        target |-> hostelId, pre |-> "localStorage",
                        post |-> "none", res |-> "invalid", sent |-> formData]
     ELSE IF u = NoUser \/ (isEditing /\ ~found)
     THEN /\ UNCHANGED <<lsHostels, ui>>
          /\ lastOp' = [op |-> opName, sess |-> s, id |-> 0,
                        target |-> hostelId, pre |-> "localStorage",
                        post |-> "none", res |-> "error", sent |-> formData]
     ELSE /\ lsHostels' = saved
          /\ ui' = [ui EXCEPT ![s] =
               MountedLocal(lsUsers, saved, lsBookings, u, OwnerGate(u))]
          /\ lastOp' = [op |-> opName, sess |-> s, id |-> 0,
                        target |-> hostelId, pre |-> "localStorage",
                        post |-> "none", res |-> "ok", sent |-> formData]
  /\ UNCHANGED <<dbStore, sessUser, lsUsers, lsBookings, authStore>>

\* ------------------------------------------------------------------------
\* HostelCreate on the supabase client (routes /hostel-create and
\* /hostel-edit/:id)
\* ------------------------------------------------------------------------
\* the role effect: an authenticated user who is neither owner nor admin
\* is sent to "/"
TurnedAway(u) ==
  isAuthenticated(u) /\ Role(u) # "owner" /\ Role(u) # "admin"

\* the effects of HostelCreate, run on what is rendered for user u: the
\* role effect, and on the edit route the effect that starts
\* fetchHostelData when a user is known
EffectsRun(view, u) ==
  LET started == IF view.page = "editDb" /\ isAuthenticated(u)
                 THEN view.hostel ELSE "null"
  IN  IF TurnedAway(u)
      THEN [BlankPage("home") EXCEPT !.fetching = started]
      ELSE [view EXCEPT !.fetching = started, !.effectsPending = FALSE]

\* navigation to /hostel-create: the form is rendered and its effects run
OpenHostelCreateDb(s) ==
  LET u == authUser[s] IN
  /\ Open(s)
  /\ ui' = [ui EXCEPT ![s] = EffectsRun(BlankPage("createDb"), u)]
  /\ lastOp' = [Loaded(s) EXCEPT
                  !.res = IF TurnedAway(u) THEN "error" ELSE "ok"]
  /\ UNCHANGED <<dbStore, sessUser, lsStore, authStore>>

\* navigation to /hostel-edit/:id: the form is rendered and its effects run
OpenHostelEditDb(s, id) ==
  LET u == authUser[s] IN
  /\ Open(s)
  /\ ui' = [ui EXCEPT ![s] =
       EffectsRun([BlankPage("editDb") EXCEPT !.hostel = id], u)]
  /\ lastOp' = [Loaded(s) EXCEPT
                  !.target = id,
                  !.res = IF TurnedAway(u) THEN "error" ELSE "ok"]
  /\ UNCHANGED <<dbStore, sessUser, lsStore, authStore>>

\* the effects of HostelCreate run some time after the render that a
\* change of the user caused
HostelCreateEffects(s) ==
  LET u == authUser[s] IN
  /\ Open(s)
  /\ ui[s].effectsPending
  /\ ui' = [ui EXCEPT ![s] = EffectsRun(@, u)]
  /\ lastOp' = [Loaded(s) EXCEPT
                  !.target = ui[s].hostel,
                  !.res = IF TurnedAway(u) THEN "error" ELSE "ok"]
  /\ UNCHANGED <<dbStore, sessUser, lsStore, authStore>>

\* the image urls, in the order the rows of hostel_images are read back
ImageOrder == <<"img1", "img2", "img3">>

IsImageOf(rows, id, url) ==
  \E r \in rows : r.hostel_id = id /\ r.image_url = url

\* hostel.hostel_images.map(img => img.image_url)
fetchedImages(rows, id) ==
  LET kept(i) == IsImageOf(rows, id, ImageOrder[i])
      F[i \in 0..Len(ImageOrder)] ==
        IF i = 0 THEN <<>>
        ELSE IF kept(i) THEN Append(F[i - 1], ImageOrder[i])
        ELSE F[i - 1]
  IN F[Len(ImageOrder)]

\* the answer of fetchHostelData arrives: the form is filled for the owner
\* and for an admin, anyone else is sent to /owner-dashboard
fetchHostelDataSettled(s) ==
  LET u == authUser[s]
      id == ui[s].fetching
      found == \E h \in hostels : h.id = id
      hostel == CHOOSE h \in hostels : h.id = id
      allowed == found /\ (u = hostel.owner_id \/ Role(u) = "admin")
  IN
  /\ Open(s)
  /\ id # "null"
  /\ ui' = [ui EXCEPT ![s] =
       IF allowed
       THEN [@ EXCEPT !.fetching = "null",
                      !.formImages = fetchedImages(hostel_images, id)]
       ELSE Mounted(hostels, bookings, u, OwnerGate(u))]
  /\ lastOp' = [Loaded(s) EXCEPT !.target = id,
                                 !.res = IF allowed THEN "ok" ELSE "error"]
  /\ UNCHANGED <<dbStore, sessUser, lsStore, authStore>>

\* the form the localStorage edit page fills in from a stored hostel:
\* hostel.amenities?.wifi || false, and so on for each flag
fetchedAmenitiesLocal(hs, id) ==
  LET hostel == CHOOSE h \in hs : h.id = id
  IN  [a \in AmenityNames |-> hostel.amenities[a]]

fetchedAmenitiesWithoutKitchen(am, id) ==
  LET rows == {r \in am : r.hostel_id = id}
  IN  IF rows = {} THEN NoAmenities
      ELSE LET amenitiesData == (CHOOSE r \in rows : TRUE).flags
           IN  [a \in AmenityNames |->
                  IF a = "kitchen" THEN FALSE ELSE amenitiesData[a]]

\* what a reader makes of the amenities embedded in a hostel:
\* amenities[0] when there is one, every flag false otherwise
fetchedAmenities(am, id) ==
  LET rows == {r \in am : r.hostel_id = id}
  IN  IF rows = {} THEN NoAmenities
      ELSE LET amenitiesData == (CHOOSE r \in rows : TRUE).flags
           IN  [a \in AmenityNames |-> amenitiesData[a]]

\* the id the store gives a newly inserted hostel
FreshHostelId ==
  CHOOSE id \in NewHostelIds : ~\E h \in hostels : h.id = id

ImageRows(id, images) ==
  {[hostel_id |-> id, image_url |-> images[i]] : i \in 1..Len(images)}

\* HostelCreate.handleSubmit on the supabase client
handleSubmitDb(s, formData) ==
  LET u == authUser[s]
      isEditing == ui[s].page = "editDb"
      hostelId == IF isEditing THEN ui[s].hostel ELSE FreshHostelId
      opName == IF isEditing THEN "UpdateListing" ELSE "CreateListing"
      found == \E h \in hostels : h.id = hostelId
      updated ==
        {IF h.id = hostelId
         THEN [h EXCEPT !.name = formData.name,
                        !.location = formData.location,
                        !.price = parseFloat(formData.price).value,
                        !.rooms = parseInt(formData.rooms).value]
         ELSE h : h \in hostels}
      inserted ==
        hostels \cup {[id |-> hostelId, owner_id |-> u,
                       name |-> formData.name,
                       location |-> formData.location,
                       price |-> parseFloat(formData.price).value,
                       rooms |-> parseInt(formData.rooms).value]}
      hs == IF isEditing THEN updated ELSE inserted
      am == IF isEditing
            THEN {IF r.hostel_id = hostelId
                  THEN [r EXCEPT !.flags = formData.amenities]
                  ELSE r : r \in amenities}
            ELSE amenities \cup {[hostel_id |-> hostelId,
                                  flags |-> formData.amenities]}
      kept == IF isEditing
              THEN {r \in hostel_images : r.hostel_id # hostelId}
              ELSE hostel_images
      \* inserting image rows for a hostel that is gone is refused
      imagesRefused == formData.images # <<>> /\ isEditing /\ ~found
      report(res) == [op |-> opName, sess |-> s, id |-> 0,
                      target |-> hostelId, pre |-> "supabase",
                      post |-> "none", res |-> res,
                      sent |-> formData]
  IN
  /\ Open(s)
  /\ \/ isEditing /\ ui[s].hostel # "null"
     \/ /\ ui[s].page = "createDb"
        /\ \E id \in NewHostelIds : ~\E h \in hostels : h.id = id
  /\ IF ~validateForm(formData)
     THEN /\ UNCHANGED <<hostels, amenities, hostel_images, ui>>
          /\ lastOp' = report("invalid")
     ELSE IF u = NoUser
     THEN /\ UNCHANGED <<hostels, amenities, hostel_images, ui>>
          /\ lastOp' = report("error")
     ELSE IF imagesRefused
     THEN /\ UNCHANGED <<hostels, amenities, hostel_images, ui>>
          /\ lastOp' = report("error")
     ELSE /\ hostels' = hs
          /\ amenities' = am
          /\ hostel_images' = kept \cup ImageRows(hostelId, formData.images)
          /\ ui' = [ui EXCEPT ![s] =
               Mounted(hs, bookings, u, OwnerGate(u))]
          /\ lastOp' = report("ok")
  /\ UNCHANGED <<bookings, nextId, adminBookingsIssued, sessUser, lsStore,
                 authStore>>

\* ------------------------------------------------------------------------
\* ImageUpload inside the hostel form
\* ------------------------------------------------------------------------
maxImages == 5

\* images added or removed in the control of one form
MaxEdits == 2

\* the urls typed into the control
NewImageUrls == {"img2", "img3"}

OnForm(s) == ui[s].page \in {"editDb", "createDb"}

\* ImageUpload.addImage: the url is appended to the images the control
\* holds, which are those of its first render plus what was added since,
\* and handleImagesChange makes the result the images of the form
addImage(s, imageUrl) ==
  LET newImages == Append(ui[s].uploadImages, imageUrl) IN
  /\ Open(s)
  /\ OnForm(s)
  /\ imageUrl # ""
  /\ Len(ui[s].uploadImages) < maxImages
  /\ Len(ui[s].imageEdits) < MaxEdits
  /\ ui' = [ui EXCEPT ![s].uploadImages = newImages,
                      ![s].formImages = newImages,
                      ![s].imageEdits =
                        Append(@, [op |-> "add", url |-> imageUrl])]
  /\ lastOp' = [NoOp EXCEPT !.op = "AddImage", !.sess = s,
                            !.target = imageUrl]
  /\ UNCHANGED <<dbStore, sessUser, lsStore, authStore>>

\* ImageUpload.removeImage: the image at index is taken out of the images
\* the control holds and the result becomes the images of the form
removeImage(s, index) ==
  LET newImages == SubSeq(ui[s].uploadImages, 1, index - 1)
                     \o SubSeq(ui[s].uploadImages, index + 1,
                               Len(ui[s].uploadImages))
  IN
  /\ Open(s)
  /\ OnForm(s)
  /\ index \in 1..Len(ui[s].uploadImages)
  /\ Len(ui[s].imageEdits) < MaxEdits
  /\ ui' = [ui EXCEPT ![s].uploadImages = newImages,
                      ![s].formImages = newImages,
                      ![s].imageEdits =
                        Append(@, [op |-> "remove",
                                   url |-> ui[s].uploadImages[index]])]
  /\ lastOp' = [NoOp EXCEPT !.op = "RemoveImage", !.sess = s,
                            !.target = ui[s].uploadImages[index]]
  /\ UNCHANGED <<dbStore, sessUser, lsStore, authStore>>

\* AuthProvider's onAuthStateChange listener delivers the profile of the
\* stored sign-in and the screens are rendered again for that user; the
\* effects of the supabase hostel form are left to run after the render
onAuthStateChange(s) ==
  LET u == sessUser[s]
      page == ui[s].page
      hostelId == ui[s].hostel
      foundLocal == \E h \in lsHostels : h.id = hostelId
      hostelLocal == CHOOSE h \in lsHostels : h.id = hostelId
      allowedLocal ==
        foundLocal /\ (u = hostelLocal.ownerId \/ Role(u) = "admin")
  IN
  /\ Open(s) /\ s \in signedIn /\ u \in Users
  /\ authUser[s] = NoUser
  /\ authUser' = [authUser EXCEPT ![s] = u]
  /\ ui' = [ui EXCEPT ![s] =
       IF page = "auth" THEN BlankPage("home")
       ELSE IF page = "createDb" \/ page = "editDb"
       THEN [@ EXCEPT !.effectsPending = TRUE]
       ELSE IF page = "create"
       THEN (IF TurnedAway(u) THEN BlankPage("home") ELSE @)
       ELSE IF page = "edit"
       THEN (IF ~allowedLocal
             THEN MountedLocal(lsUsers, lsHostels, lsBookings, u,
                               OwnerGate(u))
             ELSE IF TurnedAway(u) THEN BlankPage("home") ELSE @)
       ELSE @]
  /\ lastOp' = Loaded(s)
  /\ UNCHANGED <<dbStore, sessUser, lsStore, signedIn, provider, profiles>>

\* ------------------------------------------------------------------------
\* Signing in, signing up and signing out (route /auth)
\* ------------------------------------------------------------------------
\* the gate of the OwnerDashboard revision that admits owners only
OwnerOnlyGate(u) ==
  IF ~isAuthenticated(u) THEN "auth"
  ELSE IF Role(u) # "owner"
       THEN (IF Role(u) = "student" THEN "student" ELSE "admin")
       ELSE "owner"

OpenOwnerDashboardOwnerOnly(s) ==
  LET u == authUser[s] IN
  /\ Open(s)
  /\ ui' = [ui EXCEPT ![s] = Mounted(hostels, bookings, u, OwnerOnlyGate(u))]
  /\ adminBookingsIssued' =
       IF OwnerOnlyGate(u) = "admin" THEN adminBookingsIssued \cup {u}
       ELSE adminBookingsIssued
  /\ lastOp' = Loaded(s)
  /\ UNCHANGED <<hostels, bookings, nextId, sessUser, lsStore, listingStore,
                 authStore>>

\* the route /auth: a user who is already known is sent to "/"
OpenAuth(s) ==
  /\ Open(s)
  /\ ui' = [ui EXCEPT ![s] =
       IF isAuthenticated(authUser[s]) THEN BlankPage("home")
       ELSE BlankPage("auth")]
  /\ lastOp' = Loaded(s)
  /\ UNCHANGED <<dbStore, sessUser, lsStore, authStore>>

\* redirectBasedOnRole: the dashboard route of a role
redirectBasedOnRole(role) ==
  CASE role = "student" -> "student"
    [] role = "owner" -> "owner"
    [] role = "admin" -> "admin"

\* AuthProvider.login from the form of /auth: signInWithPassword; the
\* profile arrives later through onAuthStateChange
login(s, u, accepted) ==
  /\ Open(s)
  /\ ui[s].page = "auth" /\ s \notin signedIn
  /\ IF accepted
     THEN /\ sessUser' = [sessUser EXCEPT ![s] = u]
          /\ signedIn' = signedIn \cup {s}
          /\ lastOp' = [NoOp EXCEPT !.op = "SignIn", !.sess = s,
                                    !.res = "ok"]
     ELSE /\ UNCHANGED <<sessUser, signedIn>>
          /\ lastOp' = [NoOp EXCEPT !.op = "SignIn", !.sess = s,
                                    !.res = "error"]
  /\ UNCHANGED <<dbStore, lsStore, ui, authUser, provider, profiles>>

\* AuthProvider.signup from the form of /auth: signUp, setUser, then
\* redirectBasedOnRole(data.role)
signup(s, u, accepted) ==
  /\ Open(s)
  /\ ui[s].page = "auth" /\ s \notin signedIn
  /\ IF accepted
     THEN /\ sessUser' = [sessUser EXCEPT ![s] = u]
          /\ signedIn' = signedIn \cup {s}
          /\ authUser' = [authUser EXCEPT ![s] = u]
          /\ ui' = [ui EXCEPT ![s] =
               Mounted(hostels, bookings, u, redirectBasedOnRole(Role(u)))]
          /\ lastOp' = [NoOp EXCEPT !.op = "SignUp", !.sess = s,
                                    !.res = "ok"]
     ELSE /\ UNCHANGED <<sessUser, signedIn, authUser, ui>>
          /\ lastOp' = [NoOp EXCEPT !.op = "SignUp", !.sess = s,
                                    !.res = "error"]
  /\ UNCHANGED <<dbStore, lsStore, provider, profiles>>

\* AuthProvider.logout: signOut, setUser(null), navigate("/")
logout(s) ==
  /\ Open(s)
  /\ isAuthenticated(authUser[s])
  /\ sessUser' = [sessUser EXCEPT ![s] = NoUser]
  /\ signedIn' = signedIn \ {s}
  /\ authUser' = [authUser EXCEPT ![s] = NoUser]
  /\ ui' = [ui EXCEPT ![s] = BlankPage("home")]
  /\ lastOp' = [NoOp EXCEPT !.op = "SignOut", !.sess = s, !.res = "ok"]
  /\ UNCHANGED <<dbStore, lsStore, provider, profiles>>

\* ------------------------------------------------------------------------
\* AuthProvider step by step: isLoading, and the profile fetches that the
\* onAuthStateChange callback starts and that end on their own
\* ------------------------------------------------------------------------
\* profile fetches of one session awaiting their answer at the same time
MaxFetches == 2

\* what supabase.auth.signUp answers: an error, a user with a session, a
\* user whose email is still to be confirmed (no session), or no user
SignUpOutcomes == {"error", "session", "confirm", "nouser"}

\* the callback of onAuthStateChange called with a session: setSession and
\* the deferred fetch of the profile of the session's user
SessionEvent(p, u) == [p EXCEPT !.fetches = Append(@, u)]

\* the then-chain of getSession: it ends with setIsLoading(false); setUser
\* is behind "profile && session", and session is the null of the first
\* render
getSessionSettled(s) ==
  /\ Open(s)
  /\ provider[s].getSession
  /\ provider' = [provider EXCEPT ![s].getSession = FALSE,
                                  ![s].isLoading = FALSE]
  /\ lastOp' = [NoOp EXCEPT !.op = "GetSession", !.sess = s]
  /\ UNCHANGED <<dbStore, lsStore, sessUser, ui, authUser, signedIn, profiles>>

\* a TOKEN_REFRESHED or SIGNED_IN event of a stored sign-in reaches the
\* callback of onAuthStateChange
TokenRefreshed(s) ==
  /\ Open(s)
  /\ s \in signedIn
  /\ Len(provider[s].fetches) < MaxFetches
  /\ provider' = [provider EXCEPT ![s] = SessionEvent(@, sessUser[s])]
  /\ lastOp' = [NoOp EXCEPT !.op = "AuthEvent", !.sess = s]
  /\ UNCHANGED <<dbStore, lsStore, sessUser, ui, authUser, signedIn, profiles>>

\* the deferred part of the callback once the profile query has answered:
\* setUser(userData) when a profile came back, setIsLoading(false) in any
\* case; Auth sends a user who is known to "/"
fetchProfileSettled(s, i, found) ==
  /\ Open(s)
  /\ i \in 1..Len(provider[s].fetches)
  /\ authUser' = IF found
                 THEN [authUser EXCEPT ![s] = provider[s].fetches[i]]
                 ELSE authUser
  /\ provider' = [provider EXCEPT
                    ![s].fetches = SubSeq(@, 1, i - 1)
                                     \o SubSeq(@, i + 1, Len(@)),
                    ![s].isLoading = FALSE]
  /\ ui' = [ui EXCEPT ![s] =
       IF ui[s].page = "auth" /\ isAuthenticated(authUser'[s])
       THEN BlankPage("home") ELSE @]
  /\ lastOp' = [NoOp EXCEPT !.op = "Profile", !.sess = s,
                  !.res = IF found THEN "ok" ELSE "error"]
  /\ UNCHANGED <<dbStore, lsStore, sessUser, signedIn, profiles>>

\* AuthProvider.login: setIsLoading(true) and signInWithPassword; an error
\* resets isLoading and is thrown, a success leaves isLoading to the
\* callback of the SIGNED_IN event
signInWithPassword(s, u, accepted) ==
  /\ Open(s)
  /\ ui[s].page = "auth" /\ s \notin signedIn
  /\ Len(provider[s].fetches) < MaxFetches
  /\ IF accepted
     THEN /\ sessUser' = [sessUser EXCEPT ![s] = u]
          /\ signedIn' = signedIn \cup {s}
          /\ provider' = [provider EXCEPT ![s] =
               [SessionEvent(@, u) EXCEPT !.isLoading = TRUE,
                                          !.lastCall = "login"]]
     ELSE /\ provider' = [provider EXCEPT ![s].isLoading = FALSE]
          /\ UNCHANGED <<sessUser, signedIn>>
  /\ lastOp' = [NoOp EXCEPT !.op = "SignIn", !.sess = s,
                  !.res = IF accepted THEN "ok" ELSE "error"]
  /\ UNCHANGED <<dbStore, lsStore, ui, authUser, profiles>>

\* AuthProvider.signup: setIsLoading(true) and signUp; an error resets
\* isLoading; with a user, setUser and redirectBasedOnRole; isLoading is
\* reset only by the callback of a SIGNED_IN event, which needs a session
signUp(s, u, outcome) ==
  /\ Open(s)
  /\ ui[s].page = "auth" /\ s \notin signedIn
  /\ Len(provider[s].fetches) < MaxFetches
  /\ CASE outcome = "error" ->
            /\ provider' = [provider EXCEPT ![s].isLoading = FALSE]
            /\ UNCHANGED <<sessUser, signedIn, authUser, ui>>
       [] outcome = "nouser" ->
            /\ provider' = [provider EXCEPT ![s].isLoading = TRUE]
            /\ UNCHANGED <<sessUser, signedIn, authUser, ui>>
       [] outcome = "confirm" ->
            /\ provider' = [provider EXCEPT ![s].isLoading = TRUE,
                                            ![s].lastCall = "signup"]
            /\ authUser' = [authUser EXCEPT ![s] = u]
            /\ ui' = [ui EXCEPT ![s] =
                 Mounted(hostels, bookings, u, redirectBasedOnRole(Role(u)))]
            /\ UNCHANGED <<sessUser, signedIn>>
       [] outcome = "session" ->
            /\ provider' = [provider EXCEPT ![s] =
                 [SessionEvent(@, u) EXCEPT !.isLoading = TRUE,
                                            !.lastCall = "signup"]]
            /\ sessUser' = [sessUser EXCEPT ![s] = u]
            /\ signedIn' = signedIn \cup {s}
            /\ authUser' = [authUser EXCEPT ![s] = u]
            /\ ui' = [ui EXCEPT ![s] =
                 Mounted(hostels, bookings, u, redirectBasedOnRole(Role(u)))]
  /\ lastOp' = [NoOp EXCEPT !.op = "SignUp", !.sess = s, !.pre = outcome,
                  !.res = IF outcome = "error" THEN "error" ELSE "ok"]
  /\ UNCHANGED <<dbStore, lsStore, profiles>>

\* AuthProvider.logout: setIsLoading(true) and signOut; on success the
\* callback of SIGNED_OUT and logout itself clear the user, and logout
\* navigates to "/"; isLoading is reset in finally. The profile fetches
\* that have not answered are left as they are
signOut(s, accepted) ==
  /\ Open(s)
  /\ isAuthenticated(authUser[s])
  /\ IF accepted
     THEN /\ sessUser' = [sessUser EXCEPT ![s] = NoUser]
          /\ signedIn' = signedIn \ {s}
          /\ authUser' = [authUser EXCEPT ![s] = NoUser]
          /\ ui' = [ui EXCEPT ![s] = BlankPage("home")]
          /\ provider' = [provider EXCEPT ![s].isLoading = FALSE,
                                          ![s].lastCall = "logout"]
     ELSE /\ provider' = [provider EXCEPT ![s].isLoading = FALSE]
          /\ UNCHANGED <<sessUser, signedIn, authUser, ui>>
  /\ lastOp' = [NoOp EXCEPT !.op = "SignOut", !.sess = s,
                  !.res = IF accepted THEN "ok" ELSE "error"]
  /\ UNCHANGED <<dbStore, lsStore, profiles>>

\* ------------------------------------------------------------------------
\* HostelSearch (route /hostel-search)
\* ------------------------------------------------------------------------
\* String.prototype.toLowerCase on the letters locations are written in
toLowerCase(str) ==
  [i \in 1..Len(str) |->
     CASE str[i] = "T" -> "t"
       [] str[i] = "N" -> "n"
       [] OTHER -> str[i]]

\* String.prototype.includes
includes(str, searchString) ==
  \E i \in 0..(Len(str) - Len(searchString)) :
    SubSeq(str, i + 1, i + Len(searchString)) = searchString

\* the callback of hostels.filter in the filter effect, with the location
\* typed in compared as it was typed
keepsHostelCaseOfQuery(searchForm, hostel) ==
  /\ searchForm.location # <<>>
       => includes(toLowerCase(hostel.location), searchForm.location)
  /\ ~(hostel.price < searchForm.minPrice
         \/ hostel.price > searchForm.maxPrice)
  /\ \A key \in DOMAIN searchForm.amenities :
       ~(searchForm.amenities[key] /\ ~hostel.amenities[key])

\* the callback of hostels.filter in the filter effect
keepsHostel(searchForm, hostel) ==
  /\ searchForm.location # <<>>
       => includes(toLowerCase(hostel.location),
                   toLowerCase(searchForm.location))
  /\ ~(hostel.price < searchForm.minPrice
         \/ hostel.price > searchForm.maxPrice)
  /\ \A key \in DOMAIN searchForm.amenities :
       ~(searchForm.amenities[key] /\ ~hostel.amenities[key])

\* the filter effect: what filteredHostels is after it ran
applyFilters(searchForm, hs, filteredHostels) ==
  IF hs = {} THEN filteredHostels
  ELSE {hostel \in hs : keepsHostel(searchForm, hostel)}

\* searchForm as the page starts with it
InitialSearchForm(initialLocation) ==
  [location |-> initialLocation, minPrice |-> 0, maxPrice |-> 1000,
   amenities |-> NoAmenities]

\* what HostelSearch holds: the form, the hostels read and the result
SearchPage(searchForm, hs, filteredHostels, isLoading) ==
  [searchForm |-> searchForm, hostels |-> hs,
   filteredHostels |-> filteredHostels, isLoading |-> isLoading]
    @@ BlankPage("search")

\* what is typed into the location box or arrives in ?location=
SearchLocations == {<<>>, <<"t">>, <<"T", "N">>, <<"n", "T">>}

\* positions of the two thumbs of the price slider
SliderValues == {0, 200, 400, 1000}

\* the page is opened, with or without ?location=; nothing is read yet
OpenHostelSearch(s, initialLocation) ==
  /\ Open(s)
  /\ ui' = [ui EXCEPT ![s] =
       SearchPage(InitialSearchForm(initialLocation), {}, {}, TRUE)]
  /\ lastOp' = Loaded(s)
  /\ UNCHANGED <<dbStore, sessUser, lsStore, authStore>>

\* the timer of the mount effect reads hostel_listings; the filter effect
\* follows
loadHostels(s) ==
  /\ Open(s)
  /\ ui[s].page = "search" /\ ui[s].isLoading
  /\ ui' = [ui EXCEPT ![s] =
       SearchPage(@.searchForm, lsHostels,
                  applyFilters(@.searchForm, lsHostels, @.filteredHostels),
                  FALSE)]
  /\ lastOp' = [Loaded(s) EXCEPT !.op = "SearchListings", !.res = "ok"]
  /\ UNCHANGED <<dbStore, sessUser, lsStore, authStore>>

\* setSearchForm followed by the filter effect
setSearchForm(s, searchForm) ==
  /\ Open(s)
  /\ ui[s].page = "search"
  /\ ui' = [ui EXCEPT ![s] =
       SearchPage(searchForm, @.hostels,
                  applyFilters(searchForm, @.hostels, @.filteredHostels),
                  @.isLoading)]
  /\ lastOp' = [Loaded(s) EXCEPT !.op = "SearchListings", !.res = "ok"]
  /\ UNCHANGED <<dbStore, sessUser, lsStore, authStore>>

handleInputChange(s, value) ==
  /\ Open(s) /\ ui[s].page = "search"
  /\ setSearchForm(s, [ui[s].searchForm EXCEPT !.location = value])

handleAmenityChangeSearch(s, amenity, checked) ==
  /\ Open(s) /\ ui[s].page = "search"
  /\ setSearchForm(s,
       [ui[s].searchForm EXCEPT !.amenities[amenity] = checked])

\* the slider hands over its two thumbs, the lower one first
handlePriceChange(s, value) ==
  /\ Open(s) /\ ui[s].page = "search"
  /\ value[1] <= value[2]
  /\ setSearchForm(s,
       [ui[s].searchForm EXCEPT !.minPrice = value[1],
                                !.maxPrice = value[2]])

clearFilters(s) ==
  /\ Open(s) /\ ui[s].page = "search"
  /\ setSearchForm(s, InitialSearchForm(<<>>))

\* ------------------------------------------------------------------------
\* The chat assistant: the edge function and the chat widgets that call it
\* ------------------------------------------------------------------------
\* user messages sent in one conversation
MaxChat == 3

Fallback == "Sorry, I couldn't generate a response."

\* what the completion API answers: the HTTP status is a success or not,
\* and the texts of the candidates it lists
Upstreams ==
  {[ok |-> TRUE, candidates |-> <<"hi">>],
   [ok |-> TRUE, candidates |-> <<>>],
   [ok |-> FALSE, candidates |-> <<>>]}

UpstreamKind(upstream) ==
  IF ~upstream.ok THEN "failed"
  ELSE IF upstream.candidates = <<>> THEN "empty"
  ELSE "answered"

\* chat-with-gemini/index.ts: a failed status is thrown and answered with
\* 500; otherwise candidates?.[0]?.content?.parts?.[0]?.text || fallback
chatWithGemini(upstream) ==
  IF ~upstream.ok
  THEN [status |-> 500, response |-> "none"]
  ELSE [status |-> 200,
        response |-> IF upstream.candidates # <<>>
                        /\ upstream.candidates[1] # ""
                     THEN upstream.candidates[1]
                     ELSE Fallback]

\* the edge function that takes {message, history}: a failed status and an
\* empty candidate list are both answered with 500
chatFunction(upstream) ==
  IF ~upstream.ok
  THEN [status |-> 500, response |-> "none"]
  ELSE IF upstream.candidates = <<>>
  THEN [status |-> 500, response |-> "none"]
  ELSE [status |-> 200, response |-> upstream.candidates[1]]

Greeting == [role |-> "assistant", content |-> "Hello"]

\* the first message of the chat widget
HostelHelperGreeting == [role |-> "assistant", content |-> "HostelHelper"]

\* requests of one conversation awaiting their reply at the same time
MaxInflight == 2

\* the text of the instruction the older copy of chat-with-gemini adds
SystemInstruction == "You are a helpful assistant for HostelConnect"

\* the text of the instruction the {message, history} function adds
SYSTEM_PROMPT == "You are HostelHelper"

\* the older copy of chat-with-gemini: assistant turns go under "model",
\* and a system turn with the instruction is put first when the client
\* sent none
formattedMessages(messages) ==
  LET mapped == [i \in 1..Len(messages) |->
                   [role |-> IF messages[i].role = "assistant" THEN "model"
                             ELSE messages[i].role,
                    text |-> messages[i].content]]
  IN IF \E i \in 1..Len(messages) : messages[i].role = "system"
     THEN mapped
     ELSE <<[role |-> "system", text |-> SystemInstruction]>> \o mapped

IsSystem(msg) == msg.role = "system"

NotSystem(msg) == msg.role # "system"

\* the later copy of chat-with-gemini: an instruction is forwarded only
\* when the client sent a system message; the other turns follow in order
formattedContents(messages) ==
  LET system == SelectSeq(messages, IsSystem)
      history == SelectSeq(messages, NotSystem)
  IN (IF system # <<>>
      THEN <<[role |-> "user",
              text |-> "System instruction: " \o system[1].content],
             [role |-> "model", text |-> "I'll follow those instructions."]>>
      ELSE <<>>)
     \o [i \in 1..Len(history) |->
           [role |-> IF history[i].role = "assistant" THEN "model"
                     ELSE "user",
            text |-> history[i].content]]

HasRoleAndContent(msg) == msg.role # "" /\ msg.content # ""

\* the {message, history} function: the prompt under "model", the history
\* entries that have a role and a content, then the new message
chatFunctionMessages(message, history) ==
  LET kept == SelectSeq(history, HasRoleAndContent)
  IN <<[role |-> "model", text |-> SYSTEM_PROMPT]>>
     \o [i \in 1..Len(kept) |->
           [role |-> IF kept[i].role = "user" THEN "user" ELSE "model",
            text |-> kept[i].content]]
     \o <<[role |-> "user", text |-> message]>>

\* the copies of chat-with-gemini
Revisions == {"formattedMessages", "formattedContents"}

\* messages and isLoading are the state of the chat; inflight lists the
\* requests whose reply has not arrived, each with the function it went to
\* and whether the chat was reset since it was sent
ChatPage(page, messages, isLoading, inflight) ==
  [messages |-> messages, isLoading |-> isLoading, inflight |-> inflight]
    @@ BlankPage(page)

UserMessages(messages) ==
  {i \in 1..Len(messages) : messages[i].role = "user"}

RemoveAt(seq, i) == SubSeq(seq, 1, i - 1) \o SubSeq(seq, i + 1, Len(seq))

\* ChatProvider is mounted with the greeting of the assistant
ChatProvider(s) ==
  /\ Open(s)
  /\ ui[s].page \notin {"chat", "widget"}
  /\ ui' = [ui EXCEPT ![s] = ChatPage("chat", <<Greeting>>, FALSE, <<>>)]
  /\ lastOp' = Loaded(s)
  /\ UNCHANGED <<dbStore, sessUser, lsStore, authStore>>

\* the chat widget is mounted with its own greeting
ChatBot(s) ==
  /\ Open(s)
  /\ ui[s].page \notin {"chat", "widget"}
  /\ ui' = [ui EXCEPT ![s] =
       ChatPage("widget", <<HostelHelperGreeting>>, FALSE, <<>>)]
  /\ lastOp' = Loaded(s)
  /\ UNCHANGED <<dbStore, sessUser, lsStore, authStore>>

resetChatKeepingLoading(s) ==
  /\ Open(s)
  /\ ui[s].page = "chat"
  /\ ui' = [ui EXCEPT ![s] =
       ChatPage("chat", <<Greeting>>, ui[s].isLoading,
                [i \in 1..Len(ui[s].inflight) |->
                   [ui[s].inflight[i] EXCEPT !.stale = TRUE]])]
  /\ lastOp' = [NoOp EXCEPT !.op = "ResetChat", !.sess = s]
  /\ UNCHANGED <<dbStore, sessUser, lsStore, authStore>>

\* ChatContext.resetChat: the state becomes the greeting alone and
\* isLoading false; the requests awaiting a reply are not touched
resetChat(s) ==
  /\ Open(s)
  /\ ui[s].page = "chat"
  /\ ui' = [ui EXCEPT ![s] =
       ChatPage("chat", <<Greeting>>, FALSE,
                [i \in 1..Len(ui[s].inflight) |->
                   [ui[s].inflight[i] EXCEPT !.stale = TRUE]])]
  /\ lastOp' = [NoOp EXCEPT !.op = "ResetChat", !.sess = s]
  /\ UNCHANGED <<dbStore, sessUser, lsStore, authStore>>

\* ChatContext.sendMessage up to its await: the user's message is added,
\* isLoading set, and the messages sent to chat-with-gemini, which
\* forwards them to the completion API
sendMessage(s, content, revision) ==
  LET allMessages ==
        Append(ui[s].messages, [role |-> "user", content |-> content])
  IN
  /\ Open(s)
  /\ ui[s].page = "chat"
  /\ content # ""
  /\ ~ui[s].isLoading
  /\ Cardinality(UserMessages(ui[s].messages)) < MaxChat
  /\ Len(ui[s].inflight) < MaxInflight
  /\ ui' = [ui EXCEPT ![s] =
       ChatPage("chat", allMessages, TRUE,
                Append(ui[s].inflight,
                       [fn |-> "chatWithGemini", stale |-> FALSE]))]
  /\ lastOp' = [NoOp EXCEPT
                  !.op = "Forward", !.sess = s, !.pre = revision,
                  !.sent = IF revision = "formattedMessages"
                           THEN formattedMessages(allMessages)
                           ELSE formattedContents(allMessages)]
  /\ UNCHANGED <<dbStore, sessUser, lsStore, authStore>>

\* the chat widget's handleSendMessage up to its await, through
\* fetch('/api/chat') with the new message and the messages before it
handleSendMessage(s, content) ==
  /\ Open(s)
  /\ ui[s].page = "widget"
  /\ content # ""
  /\ ~ui[s].isLoading
  /\ Cardinality(UserMessages(ui[s].messages)) < MaxChat
  /\ Len(ui[s].inflight) < MaxInflight
  /\ ui' = [ui EXCEPT ![s] =
       ChatPage("widget",
                Append(ui[s].messages,
                       [role |-> "user", content |-> content]),
                TRUE,
                Append(ui[s].inflight,
                       [fn |-> "chatFunction", stale |-> FALSE]))]
  /\ lastOp' = [NoOp EXCEPT
                  !.op = "Forward", !.sess = s, !.pre = "chatFunction",
                  !.sent = chatFunctionMessages(content, ui[s].messages)]
  /\ UNCHANGED <<dbStore, sessUser, lsStore, authStore>>

\* the reply to the i-th request awaiting one is handled: a status other
\* than 2xx is an error for the caller, anything else is added as the
\* assistant's message to the messages of that moment; isLoading is
\* cleared either way
Exchange(s, i, upstream, reply) ==
  LET failed == reply.status # 200
  IN
  /\ ui' = [ui EXCEPT ![s] =
       ChatPage(ui[s].page,
                IF failed THEN ui[s].messages
                ELSE Append(ui[s].messages,
                            [role |-> "assistant",
                             content |-> reply.response]),
                FALSE,
                RemoveAt(ui[s].inflight, i))]
  /\ lastOp' = [NoOp EXCEPT
                  !.op = "SendMessage", !.sess = s,
                  !.target = IF ui[s].inflight[i].stale THEN "beforeReset"
                             ELSE "current",
                  !.pre = UpstreamKind(upstream),
                  !.post = IF failed THEN "none" ELSE reply.response,
                  !.res = IF failed THEN "error" ELSE "ok"]
  /\ UNCHANGED <<dbStore, sessUser, lsStore, authStore>>

\* ChatContext.sendMessage after supabase.functions.invoke has settled
sendMessageSettled(s, i, upstream) ==
  /\ Open(s)
  /\ ui[s].page = "chat"
  /\ i \in 1..Len(ui[s].inflight)
  /\ ui[s].inflight[i].fn = "chatWithGemini"
  /\ Exchange(s, i, upstream, chatWithGemini(upstream))

\* handleSendMessage after fetch('/api/chat') has settled
handleSendMessageSettled(s, i, upstream) ==
  /\ Open(s)
  /\ ui[s].page = "widget"
  /\ i \in 1..Len(ui[s].inflight)
  /\ ui[s].inflight[i].fn = "chatFunction"
  /\ Exchange(s, i, upstream, chatFunction(upstream))

\* ------------------------------------------------------------------------
\* A run of the localStorage screens
\* ------------------------------------------------------------------------
\* the accounts stored in hostel_users
SeedUsersLocal == {"A", "B", "admin"}

SeedHostelsLocal ==
  {[id |-> "L1", name |-> <<"H", "Q">>, location |-> <<"T", "n">>, price |-> 300,
    rooms |-> 4, amenities |-> NoAmenities, images |-> <<>>,
    ownerId |-> "B"],
   [id |-> "L2", name |-> <<"H", "Q">>, location |-> <<"T", "n">>, price |-> 300,
    rooms |-> 4, amenities |-> NoAmenities, images |-> <<>>,
    ownerId |-> "B"]}

\* Pending requests as a student's request leaves them: the ids of the
\* hostel, of its owner and of the requesting student
SeedBookingsLocal ==
  {[id |-> 1, hostelId |-> "L1", studentId |-> "A", ownerId |-> "B",
    status |-> "pending"],
   [id |-> 2, hostelId |-> "L2", studentId |-> "A", ownerId |-> "B",
    status |-> "pending"]}

\* two of the three accounts are signed in, one session each
InitLocal ==
  /\ hostels = {} /\ bookings = {} /\ nextId = 1
  /\ adminBookingsIssued = {}
  /\ sessUser \in {[s1 |-> "A", s2 |-> "B", s3 |-> Off],
                   [s1 |-> "A", s2 |-> Off, s3 |-> "admin"],
                   [s1 |-> Off, s2 |-> "B", s3 |-> "admin"]}
  /\ ui = [s \in Sessions |-> BlankPage("home")]
  /\ amenities = {} /\ hostel_images = {}
  /\ authUser = Restored(sessUser)
  /\ profiles = Users
  /\ provider = [s \in Sessions |-> Idle]
  /\ signedIn = {s \in Sessions : sessUser[s] \in Users}
  /\ lsUsers = SeedUsersLocal
  /\ lsHostels = SeedHostelsLocal
  /\ lsBookings \in SUBSET SeedBookingsLocal
  /\ lastOp = NoOp

NextLocal ==
  \/ \E s \in Sessions : OpenStudentDashboardLocal(s)
  \/ \E s \in Sessions : OpenOwnerDashboardLocal(s)
  \/ \E s \in Sessions : OpenAdminDashboardLocal(s)
  \/ \E s \in Sessions, id \in BookingIds : cancelBooking(s, id)
  \/ \E s \in Sessions, id \in BookingIds, st \in {"approved", "rejected"} :
       updateBookingStatus(s, id, st)
  \/ \E s \in Sessions, id \in HostelIds : deleteHostelLocal(s, id)
  \/ \E s \in Sessions, id \in Users : handleDelete(s, "user", id)
  \/ \E s \in Sessions, id \in HostelIds : handleDelete(s, "hostel", id)
  \/ \E s \in Sessions, id \in HostelIds : OpenHostelEdit(s, id)
  \/ \E s \in Sessions, formData \in PlainForms : handleSubmit(s, formData)

SpecLocal == InitLocal /\ [][NextLocal]_vars

\* ------------------------------------------------------------------------
\* A run of the hostel forms, opened in a browser that still has to read
\* its stored sign-in back
\* ------------------------------------------------------------------------
SeedAmenities ==
  {[hostel_id |-> "L1", flags |-> Flags({"wifi"})],
   [hostel_id |-> "L2", flags |-> NoAmenities]}

\* one browser session: a student, the owner of L1, another owner, an
\* admin or a visitor
InitForm ==
  /\ hostels = SeedHostels
  /\ amenities = SeedAmenities
  /\ hostel_images = {}
  /\ bookings = {} /\ nextId = 1 /\ adminBookingsIssued = {}
  /\ sessUser \in {[s1 |-> u, s2 |-> Off, s3 |-> Off] :
                     u \in {"A", "B", "C", "admin", NoUser}}
  /\ ui = [s \in Sessions |-> BlankPage("home")]
  /\ authUser = [s \in Sessions |-> NoUser]
  /\ profiles = Users
  /\ provider = [s \in Sessions |-> Idle]
  /\ signedIn = {s \in Sessions : sessUser[s] \in Users}
  /\ lsUsers = Users
  /\ lsHostels = SeedHostelsLocal
  /\ lsBookings = {}
  /\ lastOp = NoOp

NextForm ==
  \/ \E s \in Sessions : onAuthStateChange(s)
  \/ \E s \in Sessions : OpenHostelCreateDb(s)
  \/ \E s \in Sessions, id \in HostelIds : OpenHostelEditDb(s, id)
  \/ \E s \in Sessions : HostelCreateEffects(s)
  \/ \E s \in Sessions : fetchHostelDataSettled(s)
  \/ \E s \in Sessions, formData \in SubmittedForms :
       handleSubmitDb(s, formData)

SpecForm == InitForm /\ [][NextForm]_vars

\* the form as it is submitted after the images were edited: the fields
\* as they pass validation, the images those of the form
FormWithImages(s) == [ValidForm EXCEPT !.images = ui[s].formImages]

\* the owner of L1 or the admin, already known to the pages, with L1
\* holding one stored image
InitImages ==
  /\ hostels = SeedHostels
  /\ amenities = SeedAmenities
  /\ hostel_images = {[hostel_id |-> "L1", image_url |-> "img1"]}
  /\ bookings = {} /\ nextId = 1 /\ adminBookingsIssued = {}
  /\ sessUser \in {[s1 |-> u, s2 |-> Off, s3 |-> Off] :
                     u \in {"B", "admin"}}
  /\ ui = [s \in Sessions |-> BlankPage("home")]
  /\ authUser = Restored(sessUser)
  /\ profiles = Users
  /\ provider = [s \in Sessions |-> Idle]
  /\ signedIn = {s \in Sessions : sessUser[s] \in Users}
  /\ lsUsers = Users
  /\ lsHostels = SeedHostelsLocal
  /\ lsBookings = {}
  /\ lastOp = NoOp

NextImages ==
  \/ \E s \in Sessions, id \in HostelIds : OpenHostelEditDb(s, id)
  \/ \E s \in Sessions : fetchHostelDataSettled(s)
  \/ \E s \in Sessions, imageUrl \in NewImageUrls : addImage(s, imageUrl)
  \/ \E s \in Sessions, index \in 1..maxImages : removeImage(s, index)
  \/ \E s \in Sessions : handleSubmitDb(s, FormWithImages(s))

SpecImages == InitImages /\ [][NextImages]_vars

NextFormLocal ==
  \/ \E s \in Sessions : onAuthStateChange(s)
  \/ \E s \in Sessions : OpenHostelCreateLocal(s)
  \/ \E s \in Sessions, id \in HostelIds : OpenHostelEdit(s, id)
  \/ \E s \in Sessions, formData \in SubmittedForms :
       handleSubmit(s, formData)

SpecFormLocal == InitForm /\ [][NextFormLocal]_vars

\* ------------------------------------------------------------------------
\* A run of the search page over the hostels kept in hostel_listings
\* ------------------------------------------------------------------------
SearchSeed ==
  {[id |-> "L1", name |-> <<"H", "Q">>, location |-> <<"T", "n">>,
    price |-> 300, rooms |-> 4, amenities |-> Flags({"wifi"}),
    images |-> <<>>, ownerId |-> "B"],
   [id |-> "L2", name |-> <<"H", "Q">>, location |-> <<"t", "N", "t">>,
    price |-> 500, rooms |-> 4, amenities |-> Flags({"wifi", "kitchen"}),
    images |-> <<>>, ownerId |-> "B"],
   [id |-> "L3", name |-> <<"H", "Q">>, location |-> <<"N">>,
    price |-> 200, rooms |-> 4, amenities |-> Flags({"kitchen"}),
    images |-> <<>>, ownerId |-> "C"],
   [id |-> "L4", name |-> <<"H", "Q">>, location |-> <<"n", "T">>,
    price |-> 400, rooms |-> 4, amenities |-> Flags({"wifi", "kitchen"}),
    images |-> <<>>, ownerId |-> "C"]}

\* one browser session, of a student or of a visitor
InitSearch ==
  /\ hostels = {} /\ bookings = {} /\ nextId = 1
  /\ adminBookingsIssued = {}
  /\ amenities = {} /\ hostel_images = {}
  /\ sessUser \in {[s1 |-> u, s2 |-> Off, s3 |-> Off] : u \in {"A", NoUser}}
  /\ ui = [s \in Sessions |-> BlankPage("home")]
  /\ authUser = Restored(sessUser)
  /\ profiles = Users
  /\ provider = [s \in Sessions |-> Idle]
  /\ signedIn = {s \in Sessions : sessUser[s] \in Users}
  /\ lsUsers = Users
  /\ lsHostels \in SUBSET SearchSeed
  /\ lsBookings = {}
  /\ lastOp = NoOp

NextSearch ==
  \/ \E s \in Sessions, initialLocation \in SearchLocations :
       OpenHostelSearch(s, initialLocation)
  \/ \E s \in Sessions : loadHostels(s)
  \/ \E s \in Sessions, value \in SearchLocations :
       handleInputChange(s, value)
  \/ \E s \in Sessions, amenity \in {"wifi", "kitchen"},
        checked \in BOOLEAN :
       handleAmenityChangeSearch(s, amenity, checked)
  \/ \E s \in Sessions, lo \in SliderValues, hi \in SliderValues :
       handlePriceChange(s, <<lo, hi>>)
  \/ \E s \in Sessions : clearFilters(s)

SpecSearch == InitSearch /\ [][NextSearch]_vars

\* ------------------------------------------------------------------------
\* A run of one browser session through the sign-in page and the screens
\* of the three roles
\* ------------------------------------------------------------------------
InitNav ==
  /\ hostels = SeedHostels
  /\ amenities = SeedAmenities
  /\ hostel_images = {}
  /\ bookings = {} /\ nextId = 1 /\ adminBookingsIssued = {}
  /\ sessUser \in {[s1 |-> u, s2 |-> Off, s3 |-> Off] :
                     u \in {"A", "B", "admin", NoUser}}
  /\ ui = [s \in Sessions |-> BlankPage("home")]
  /\ authUser = Restored(sessUser)
  /\ profiles = Users
  /\ provider = [s \in Sessions |-> Idle]
  /\ signedIn = {s \in Sessions : sessUser[s] \in Users}
  /\ lsUsers = Users
  /\ lsHostels = SeedHostelsLocal
  /\ lsBookings = {}
  /\ lastOp = NoOp

NextNav ==
  \/ \E s \in Sessions : OpenAuth(s)
  \/ \E s \in Sessions, u \in {"A", "B", "admin"}, accepted \in BOOLEAN :
       login(s, u, accepted)
  \/ \E s \in Sessions, u \in {"S2", "C"}, accepted \in BOOLEAN :
       signup(s, u, accepted)
  \/ \E s \in Sessions : logout(s)
  \/ \E s \in Sessions : onAuthStateChange(s)
  \/ \E s \in Sessions : OpenStudentDashboard(s)
  \/ \E s \in Sessions : OpenOwnerDashboard(s)
  \/ \E s \in Sessions : OpenOwnerDashboardOwnerOnly(s)
  \/ \E s \in Sessions : OpenAdminDashboard(s)
  \/ \E s \in Sessions : OpenHostelCreateDb(s)
  \/ \E s \in Sessions, id \in HostelIds : OpenHostelEditDb(s, id)
  \/ \E s \in Sessions : HostelCreateEffects(s)
  \/ \E s \in Sessions : fetchHostelDataSettled(s)
  \/ \E s \in Sessions : OpenHostelCreateLocal(s)
  \/ \E s \in Sessions, id \in HostelIds : OpenHostelEdit(s, id)
  \/ \E s \in Sessions, id \in HostelIds : fetchHostelData(s, id)

SpecNav == InitNav /\ [][NextNav]_vars

\* ------------------------------------------------------------------------
\* The same screens in a browser that has just loaded the application:
\* AuthProvider starts with user null, whatever sign-in is stored
\* ------------------------------------------------------------------------
InitReload ==
  /\ hostels = SeedHostels
  /\ amenities = SeedAmenities
  /\ hostel_images = {}
  /\ bookings = {} /\ nextId = 1 /\ adminBookingsIssued = {}
  /\ sessUser \in {[s1 |-> u, s2 |-> Off, s3 |-> Off] :
                     u \in {"A", "B", "admin", NoUser}}
  /\ ui = [s \in Sessions |-> BlankPage("home")]
  /\ authUser = [s \in Sessions |-> NoUser]
  /\ profiles = Users
  /\ provider = [s \in Sessions |-> Idle]
  /\ signedIn = {s \in Sessions : sessUser[s] \in Users}
  /\ lsUsers = Users
  /\ lsHostels = SeedHostelsLocal
  /\ lsBookings = {}
  /\ lastOp = NoOp

SpecReload == InitReload /\ [][NextNav]_vars

\* ------------------------------------------------------------------------
\* AuthProvider from its mount in one browser, with or without a stored
\* sign-in: isLoading true, getSession awaited, and with a stored sign-in
\* the callback of onAuthStateChange called once
\* ------------------------------------------------------------------------
InitAuth ==
  /\ hostels = SeedHostels
  /\ amenities = SeedAmenities
  /\ hostel_images = {}
  /\ bookings = {} /\ nextId = 1 /\ adminBookingsIssued = {}
  /\ sessUser \in {[s1 |-> u, s2 |-> Off, s3 |-> Off] :
                     u \in {"A", "B", NoUser}}
  /\ ui = [s \in Sessions |-> BlankPage("home")]
  /\ authUser = [s \in Sessions |-> NoUser]
  /\ profiles = Users
  /\ signedIn = {s \in Sessions : sessUser[s] \in Users}
  /\ provider = [s \in Sessions |->
       IF sessUser[s] = Off THEN Idle
       ELSE [isLoading |-> TRUE,
             fetches |-> IF sessUser[s] \in Users THEN <<sessUser[s]>>
                         ELSE <<>>,
             getSession |-> TRUE, lastCall |-> "none"]]
  /\ lsUsers = Users
  /\ lsHostels = SeedHostelsLocal
  /\ lsBookings = {}
  /\ lastOp = NoOp

NextAuth ==
  \/ \E s \in Sessions : OpenAuth(s)
  \/ \E s \in Sessions : getSessionSettled(s)
  \/ \E s \in Sessions : TokenRefreshed(s)
  \/ \E s \in Sessions, i \in 1..MaxFetches, found \in BOOLEAN :
       fetchProfileSettled(s, i, found)
  \/ \E s \in Sessions, u \in {"A", "B"}, accepted \in BOOLEAN :
       signInWithPassword(s, u, accepted)
  \/ \E s \in Sessions, u \in {"S2", "C"}, outcome \in SignUpOutcomes :
       signUp(s, u, outcome)
  \/ \E s \in Sessions, accepted \in BOOLEAN : signOut(s, accepted)

SpecAuth == InitAuth /\ [][NextAuth]_vars

\* every request that was sent is answered: the getSession chain and each
\* profile fetch settle
SpecAuthFair ==
  /\ SpecAuth
  /\ \A s \in Sessions :
       /\ WF_vars(getSessionSettled(s))
       /\ WF_vars(\E i \in 1..MaxFetches, found \in BOOLEAN :
                    fetchProfileSettled(s, i, found))

\* ------------------------------------------------------------------------
\* A run of the chat assistant in one browser session
\* ------------------------------------------------------------------------
InitChat ==
  /\ hostels = {} /\ bookings = {} /\ nextId = 1
  /\ adminBookingsIssued = {}
  /\ amenities = {} /\ hostel_images = {}
  /\ sessUser \in {[s1 |-> u, s2 |-> Off, s3 |-> Off] : u \in {"A", NoUser}}
  /\ ui = [s \in Sessions |-> BlankPage("home")]
  /\ authUser = Restored(sessUser)
  /\ profiles = Users
  /\ provider = [s \in Sessions |-> Idle]
  /\ signedIn = {s \in Sessions : sessUser[s] \in Users}
  /\ lsUsers = Users
  /\ lsHostels = {}
  /\ lsBookings = {}
  /\ lastOp = NoOp

NextChat ==
  \/ \E s \in Sessions : ChatProvider(s)
  \/ \E s \in Sessions : ChatBot(s)
  \/ \E s \in Sessions : resetChat(s)
  \/ \E s \in Sessions, content \in {"q", "r"}, revision \in Revisions :
       sendMessage(s, content, revision)
  \/ \E s \in Sessions, content \in {"q", "r"} :
       handleSendMessage(s, content)
  \/ \E s \in Sessions, i \in 1..MaxInflight, upstream \in Upstreams :
       sendMessageSettled(s, i, upstream)
  \/ \E s \in Sessions, i \in 1..MaxInflight, upstream \in Upstreams :
       handleSendMessageSettled(s, i, upstream)

SpecChat == InitChat /\ [][NextChat]_vars

TypeOK ==
  /\ \A b \in bookings : b.status \in Statuses
  /\ nextId \in BookingIds

Terminal == {"approved", "rejected"}

Caller == sessUser[lastOp.sess]

\* ------------------------------------------------------------------------
\* C1. A booking's status changes only from pending to approved or from
\* pending to rejected; an approved or rejected booking never changes its
\* status again.
\* ------------------------------------------------------------------------
C1_StatusOnlyLeavesPending ==
  [][\A b \in bookings : \A c \in bookings' :
       (c.id = b.id /\ c.status # b.status)
         => (b.status = "pending" /\ c.status \in Terminal)]_vars

\* ------------------------------------------------------------------------
\* C2. SetBookingStatus on a booking whose stored status is already
\* approved or rejected reports a failure and leaves the status as it was.
\* ------------------------------------------------------------------------
C2_DecidedBookingRejectsSetStatus ==
  (lastOp.op = "SetBookingStatus" /\ lastOp.pre \in Terminal)
    => (lastOp.res = "error" /\ lastOp.post = lastOp.pre)

\* ------------------------------------------------------------------------
\* C3. SetBookingStatus on a booking for listing L, called by someone who
\* is neither the stored owner of L nor an admin, reports a failure and
\* leaves the status as it was.
\* ------------------------------------------------------------------------
C3_StrangerCannotDecide ==
  (/\ lastOp.op = "SetBookingStatus"
   /\ lastOp.pre # "absent"
   /\ \E h \in lsHostels : h.id = lastOp.target
   /\ ~\E h \in lsHostels : h.id = lastOp.target /\ h.ownerId = Caller
   /\ Role(Caller) # "admin")
    => (lastOp.res = "error" /\ lastOp.post = lastOp.pre)

\* ------------------------------------------------------------------------
\* C4. CancelBooking by the owning student deletes a pending booking; on an
\* approved or rejected booking it reports a failure (never success) and
\* the booking stays stored.
\* ------------------------------------------------------------------------
C4_CancelOnlyPending ==
  lastOp.op = "CancelBooking" =>
    /\ lastOp.pre = "pending" => lastOp.post = "absent"
    /\ lastOp.pre \in Terminal =>
         (lastOp.res = "error" /\ lastOp.post = lastOp.pre)

C5_WitnessOwner ==
  /\ lastOp.op = "load"
  /\ ui[lastOp.sess].page = "owner"
  /\ \E b, c \in ui[lastOp.sess].bookings : b.student_id # c.student_id

\* ------------------------------------------------------------------------
\* C6. The system-wide booking query is issued only on behalf of a caller
\* whose role is admin.
\* ------------------------------------------------------------------------
C6_AllBookingsAdminOnly ==
  \A u \in adminBookingsIssued : Role(u) = "admin"

\* ------------------------------------------------------------------------
\* C7. Every booking that CreateBooking stores is pending, references the
\* caller as its student, and the caller is a student; a call by an owner,
\* an admin or a visitor stores nothing.
\* ------------------------------------------------------------------------
C7_OnlyStudentsCreatePending ==
  [][\A b \in bookings' :
       (~\E o \in bookings : o.id = b.id) =>
         /\ b.status = "pending"
         /\ lastOp'.op = "CreateBooking" /\ lastOp'.res = "ok"
         /\ lastOp'.id = b.id
         /\ b.student_id = sessUser[lastOp'.sess]
         /\ Role(b.student_id) = "student"]_vars

\* an owner's or an admin's request was turned away after a student's
\* booking had been stored
C7_Witness ==
  /\ bookings # {}
  /\ lastOp.op = "CreateBooking" /\ lastOp.res = "error"
  /\ Role(Caller) \in {"owner", "admin"}

\* ------------------------------------------------------------------------
\* C8. No two pending bookings exist for the same student and listing.
\* ------------------------------------------------------------------------
C8_NoDuplicatePending ==
  \A b, c \in bookings :
    (b.student_id = c.student_id /\ b.hostel_id = c.hostel_id
       /\ b.status = "pending" /\ c.status = "pending") => b.id = c.id

\* ------------------------------------------------------------------------
\* C9. Every stored booking references a listing that is stored and a
\* student that is stored.
\* ------------------------------------------------------------------------
C9_BookingReferencesResolve ==
  \A b \in lsBookings :
    /\ \E h \in lsHostels : h.id = b.hostelId
    /\ b.studentId \in lsUsers

\* ------------------------------------------------------------------------
\* C10. Once DeleteListing of listing L has reported success, whether the
\* owner's screen or the admin's screen ran it, no stored booking references
\* L.
\* ------------------------------------------------------------------------
C10_DeleteListingTakesBookings ==
  (lastOp.op = "DeleteListing" /\ lastOp.res = "ok")
    => \A b \in lsBookings : b.hostelId # lastOp.target

\* the submission an action has just made of the hostel form as a new hostel
CreateSubmitted == lastOp.op = "CreateListing"

\* every store a hostel, its amenities or its images are kept in
listingRecords == <<hostels, amenities, hostel_images, lsHostels>>

\* ------------------------------------------------------------------------
\* C11. CreateListing with a price of 0 or with 0 rooms is turned down as
\* invalid, and the step stores no hostel, no amenities and no image.
\* ------------------------------------------------------------------------
C11_ZeroPriceOrRoomsStoresNothing ==
  [][(/\ lastOp'.op = "CreateListing"
      /\ (lastOp'.sent.price = "0" \/ lastOp'.sent.rooms = "0"))
       => (lastOp'.res = "invalid" /\ UNCHANGED listingRecords)]_vars

\* an owner whose sign-in is known has just submitted a new hostel with
\* price 0 and a valid number of rooms
C11_Witness ==
  /\ CreateSubmitted
  /\ lastOp.sent.price = "0" /\ lastOp.sent.rooms = "4"
  /\ Role(authUser[lastOp.sess]) = "owner"
  /\ ui[lastOp.sess].page = "createDb"

\* ------------------------------------------------------------------------
\* C12. CreateListing with an empty name or an empty location is turned
\* down, and the step stores no hostel.
\* ------------------------------------------------------------------------
C12_EmptyNameOrLocationStoresNothing ==
  [][(/\ lastOp'.op = "CreateListing"
      /\ (lastOp'.sent.name = <<>> \/ lastOp'.sent.location = <<>>))
       => (lastOp'.res # "ok" /\ UNCHANGED listingRecords)]_vars

\* ------------------------------------------------------------------------
\* C13. CreateListing succeeds only for a caller whose role is owner or
\* admin, and no stored hostel has a student as its owner, in whatever order
\* the page is rendered, the sign-in is read back, the role effect
\* redirects and the form is submitted.
\* ------------------------------------------------------------------------
C13_NoStudentOwnsAHostel ==
  /\ (CreateSubmitted /\ lastOp.res = "ok")
       => Role(authUser[lastOp.sess]) \in {"owner", "admin"}
  /\ \A h \in hostels : Role(h.owner_id) # "student"
  /\ \A h \in lsHostels : Role(h.ownerId) # "student"

\* ------------------------------------------------------------------------
\* C14. The stored fields of a hostel, and its amenities, are changed only
\* by an UpdateListing of the hostel's owner or of an admin: a submission
\* by anyone else changes nothing, even when it is made before the
\* permission check of the edit page has answered.
\* ------------------------------------------------------------------------
C14_OnlyOwnerOrAdminUpdates ==
  [][\A h \in hostels :
       LET changed ==
             \/ \E g \in hostels' : g.id = h.id /\ g # h
             \/ fetchedAmenities(amenities', h.id)
                  # fetchedAmenities(amenities, h.id)
           caller == authUser[lastOp'.sess]
       IN  (changed /\ \E g \in hostels' : g.id = h.id) =>
             /\ lastOp'.op = "UpdateListing"
             /\ lastOp'.target = h.id
             /\ (caller = h.owner_id \/ Role(caller) = "admin")]_vars

\* two letters that differ at most in case
SameLetter(c, d) == toLowerCase(<<c>>) = toLowerCase(<<d>>)

\* str holds the letters of sub in a row, case aside
ContainsIgnoringCase(str, sub) ==
  \E i \in 0..(Len(str) - Len(sub)) :
    \A j \in 1..Len(sub) : SameLetter(str[i + j], sub[j])

\* ------------------------------------------------------------------------
\* C15. The hostels a search shows are exactly the stored hostels whose
\* location contains the text searched for, case aside, whose price is
\* from minPrice to maxPrice inclusive, and which have every amenity
\* asked for.
\* ------------------------------------------------------------------------
C15_SearchShowsExactlyTheMatches ==
  \A s \in Sessions :
    (ui[s].page = "search" /\ ~ui[s].isLoading) =>
      LET searchForm == ui[s].searchForm IN
      ui[s].filteredHostels =
        {h \in lsHostels :
           /\ ContainsIgnoringCase(h.location, searchForm.location)
           /\ searchForm.minPrice <= h.price
           /\ h.price <= searchForm.maxPrice
           /\ \A a \in AmenityNames :
                searchForm.amenities[a] => h.amenities[a]}

\* a search from 200 to 400 with wifi asked for, by upper-case letters,
\* shows a hostel and leaves out one that costs 500 and one without wifi
C15_Witness ==
  /\ lastOp.op = "SearchListings"
  /\ LET view == ui[lastOp.sess] IN
     /\ view.page = "search" /\ ~view.isLoading
     /\ view.searchForm.minPrice = 200 /\ view.searchForm.maxPrice = 400
     /\ view.searchForm.amenities["wifi"]
     /\ view.searchForm.location = <<"T", "N">>
     /\ view.filteredHostels # {}
     /\ \E h \in lsHostels \ view.filteredHostels : h.price = 500
     /\ \E h \in lsHostels \ view.filteredHostels : ~h.amenities["wifi"]

\* ------------------------------------------------------------------------
\* C16. A hostel that CreateListing has stored with seven amenity flags
\* reads back, the way the edit page reads a hostel, with the same seven
\* flags.
\* ------------------------------------------------------------------------
C16_AmenitiesReadBackAsCreated ==
  (CreateSubmitted /\ lastOp.res = "ok") =>
    IF lastOp.pre = "supabase"
    THEN fetchedAmenities(amenities, lastOp.target) = lastOp.sent.amenities
    ELSE fetchedAmenitiesLocal(lsHostels, lastOp.target)
           = lastOp.sent.amenities

\* an owner has just created a hostel with wifi and kitchen ticked and the
\* other five flags left off
C16_Witness ==
  /\ CreateSubmitted /\ lastOp.res = "ok" /\ lastOp.pre = "supabase"
  /\ lastOp.sent.amenities = Flags({"wifi", "kitchen"})
  /\ \E h \in hostels : h.id = lastOp.target
  /\ \E r \in amenities : r.hostel_id = lastOp.target

\* ------------------------------------------------------------------------
\* C17. A user who is signed in and enters a screen of another role, a
\* dashboard or the form that creates a hostel, where the access an admin
\* has to owner screens does not apply, ends on the dashboard of the user's
\* own role.
\* ------------------------------------------------------------------------
C17_WrongRoleEndsOnOwnDashboard ==
  [][\A s \in Sessions :
       LET u == authUser[s]
           entersOthersScreen ==
             \/ OpenStudentDashboard(s) /\ Role(u) # "student"
             \/ OpenOwnerDashboard(s) /\ Role(u) = "student"
             \/ OpenOwnerDashboardOwnerOnly(s) /\ Role(u) # "owner"
             \/ OpenAdminDashboard(s) /\ Role(u) # "admin"
             \/ OpenHostelCreateDb(s) /\ Role(u) = "student"
             \/ OpenHostelCreateLocal(s) /\ Role(u) = "student"
       IN  (isAuthenticated(u) /\ entersOthersScreen)
             => ui'[s].page = redirectBasedOnRole(Role(u))]_vars

\* ------------------------------------------------------------------------
\* C18. A visitor who is not signed in and enters a dashboard or the form
\* that creates or edits a hostel ends on the sign-in page.
\* ------------------------------------------------------------------------
C18_VisitorEndsOnSignIn ==
  [][\A s \in Sessions :
       LET entersRoleScreen ==
             \/ OpenStudentDashboard(s)
             \/ OpenOwnerDashboard(s)
             \/ OpenOwnerDashboardOwnerOnly(s)
             \/ OpenAdminDashboard(s)
             \/ OpenHostelCreateDb(s)
             \/ OpenHostelCreateLocal(s)
             \/ \E id \in HostelIds : OpenHostelEditDb(s, id)
       IN  (s \notin signedIn /\ authUser[s] = NoUser /\ entersRoleScreen)
             => ui'[s].page = "auth"]_vars

\* ------------------------------------------------------------------------
\* C19. When a sign-in or a sign-up has succeeded and the user becomes
\* known to the pages, the user is on the dashboard of the user's role.
\* ------------------------------------------------------------------------
C19_SignInEndsOnOwnDashboard ==
  [][\A s \in Sessions :
       (/\ authUser[s] = NoUser
        /\ isAuthenticated(authUser'[s])
        /\ ui[s].page = "auth"
        /\ \/ lastOp.op = "SignIn" /\ lastOp.res = "ok" /\ lastOp.sess = s
           \/ lastOp'.op = "SignUp" /\ lastOp'.res = "ok")
         => ui'[s].page = redirectBasedOnRole(Role(authUser'[s]))]_vars

\* ------------------------------------------------------------------------
\* C20. When the completion API answers with a status that is not a
\* success, or with an empty list of candidates, SendMessage ends in an
\* error and no text is added as the assistant's reply.
\* ------------------------------------------------------------------------
C20_UpstreamFailureIsAnError ==
  (lastOp.op = "SendMessage" /\ lastOp.pre \in {"failed", "empty"})
    => (lastOp.res = "error" /\ lastOp.post = "none")

\* the turns a transcript is forwarded as: assistant under "model"
ForwardedTurns(messages) ==
  [i \in 1..Len(messages) |->
     [role |-> IF messages[i].role = "assistant" THEN "model" ELSE "user",
      text |-> messages[i].content]]

\* ------------------------------------------------------------------------
\* C21. Every request forwarded to the completion API carries the fixed
\* instruction first, followed by the turns of the transcript in their
\* order, each assistant turn under the role "model".
\* ------------------------------------------------------------------------
C21_ForwardedRequestStartsWithInstruction ==
  lastOp.op = "Forward"
    => /\ Len(lastOp.sent) = Len(ui[lastOp.sess].messages) + 1
       /\ lastOp.sent[1].text \in {SystemInstruction, SYSTEM_PROMPT}
       /\ SubSeq(lastOp.sent, 2, Len(lastOp.sent))
            = ForwardedTurns(ui[lastOp.sess].messages)

\* ------------------------------------------------------------------------
\* C22. Right after resetChat the chat holds exactly one message, the
\* greeting of the assistant, and isLoading is false, whatever the chat
\* held before.
\* ------------------------------------------------------------------------
C22_ResetLeavesGreetingAndNotLoading ==
  lastOp.op = "ResetChat"
    => /\ ui[lastOp.sess].messages = <<Greeting>>
       /\ ui[lastOp.sess].isLoading = FALSE

\* the chat was reset while a message was awaiting its reply
C22_Witness ==
  /\ lastOp.op = "ResetChat"
  /\ Len(ui[lastOp.sess].inflight) > 0

\* ------------------------------------------------------------------------
\* C29. After resetChat no reply to a message sent before the reset is
\* appended: when the reply to such a message is handled, the messages of
\* the chat stay as they were.
\* ------------------------------------------------------------------------
C29_NoReplyToMessageSentBeforeReset ==
  [][\A s \in Sessions :
       (lastOp'.op = "SendMessage" /\ lastOp'.sess = s
          /\ lastOp'.target = "beforeReset")
         => ui'[s].messages = ui[s].messages]_vars

C24_OwnDashboardStaysOpenDuringRestore ==
  [][\A s \in Sessions :
       (s \in signedIn /\ sessUser[s] \in Users)
         => /\ (OpenStudentDashboard(s) /\ Role(sessUser[s]) = "student")
                 => ui'[s].page = "student"
            /\ ((OpenOwnerDashboard(s) \/ OpenOwnerDashboardOwnerOnly(s))
                  /\ Role(sessUser[s]) = "owner")
                 => ui'[s].page = "owner"
            /\ (OpenAdminDashboard(s) /\ Role(sessUser[s]) = "admin")
                 => ui'[s].page = "admin"]_vars

\* ------------------------------------------------------------------------
\* C25. Once a logout has completed, the auth state stays unauthenticated
\* until the next login or signup, also when a profile fetch started by an
\* earlier auth-state-change event is answered after the logout.
\* ------------------------------------------------------------------------
C25_LoggedOutUntilNextLogin ==
  \A s \in Sessions :
    provider[s].lastCall = "logout" => ~isAuthenticated(authUser[s])

\* ------------------------------------------------------------------------
\* C26. Every login, signup or logout call eventually leaves isLoading
\* false, whether it succeeds, fails, or (signup) succeeds without a
\* session or without a user.
\* ------------------------------------------------------------------------
C26_CallsLeaveLoadingFalse ==
  \A s \in Sessions :
    (lastOp.op \in {"SignIn", "SignUp", "SignOut"} /\ lastOp.sess = s)
      ~> ~provider[s].isLoading

\* ------------------------------------------------------------------------
\* C27. UpdateListing never changes who owns the hostel: after a successful
\* edit, by the owner or by an admin, the hostel has the owner it had.
\* ------------------------------------------------------------------------
C27_UpdateKeepsOwner ==
  [][(lastOp'.op = "UpdateListing" /\ lastOp'.res = "ok")
       => /\ \A h \in lsHostels : \A g \in lsHostels' :
               g.id = h.id => g.ownerId = h.ownerId
          /\ \A h \in hostels : \A g \in hostels' :
               g.id = h.id => g.owner_id = h.owner_id]_vars

\* the urls stored for a hostel
StoredImages(rows, id) == {r.image_url : r \in {x \in rows : x.hostel_id = id}}

\* ------------------------------------------------------------------------
\* C28. When a hostel with stored images has been opened for editing and
\* loaded, one image is added in the image control and the form is saved,
\* the hostel holds every image it held before and the new one.
\* ------------------------------------------------------------------------
C28_AddedImageKeepsStoredImages ==
  [][\A s \in Sessions :
       (/\ lastOp'.op = "UpdateListing" /\ lastOp'.res = "ok"
        /\ lastOp'.sess = s
        /\ ui[s].fetching = "null"
        /\ Len(ui[s].imageEdits) = 1
        /\ ui[s].imageEdits[1].op = "add"
        /\ lastOp.op = "AddImage")
         => StoredImages(hostel_images', ui[s].hostel)
              = StoredImages(hostel_images, ui[s].hostel)
                  \cup {ui[s].imageEdits[1].url}]_vars

\* ------------------------------------------------------------------------
\* C30. No delete of a user by an admin removes the admin's own account:
\* a delete whose target is the caller is refused and leaves the users as
\* they are.
\* ------------------------------------------------------------------------
C30_AdminCannotDeleteSelf ==
  [][\A s \in Sessions :
       (lastOp'.op = "DeleteUser" /\ lastOp'.sess = s
          /\ lastOp'.target = authUser[s])
         => /\ lastOp'.res = "error"
            /\ profiles' = profiles
            /\ lsUsers' = lsUsers]_vars

====
